---- MODULE Spec2Model ----
(***************************************************************************)
(* Model of the job collection pipeline of streamlit_app.py:               *)
(*   - scrape_multiple_companies: per-employer first query, saturation     *)
(*     test, time-window queries, within-employer and cross-employer       *)
(*     drop_duplicates, final sort by date_posted;                         *)
(*   - ai_filter_jobs: per-record model call, structured parse of the      *)
(*     reply, fallback parse, keep rule, final sort by ai_score;           *)
(*   - smart_job_search: the title filter of the results table;            *)
(*   - main: validation of the Start Search form, the call of              *)
(*     scrape_multiple_companies and the closing message;                  *)
(*   - display_job_data_table: the job table across script reruns, with    *)
(*     its title search, AI filter and stored AI result, company filter,   *)
(*     sort and pagination;                                                *)
(*   - analyze_duplicates of app.py.                                       *)
(* Each has its own specification (Spec and SpecReturning, SpecDedupe,     *)
(* SpecAI, SpecSearch, SpecMain, SpecTable, SpecAnalyze) over the one set  *)
(* of variables.                                                           *)
(*                                                                         *)
(* A DataFrame is a record [rows, bulk, columns]: rows is the sequence of  *)
(* the rows the model tracks individually, bulk is the number of further   *)
(* rows of the frame whose (job_url, title) keys occur nowhere else in the *)
(* request, and columns says whether the frame has the columns of the      *)
(* upstream schema (pd.DataFrame() has none).  len(df) is Len(rows) + bulk.*)
(* The bulk rows let a frame reach the saturation threshold of 950 rows    *)
(* without 950 explicit rows.  A column that a frame does not have reads   *)
(* as NaN after pd.concat.                                                 *)
(*                                                                         *)
(* The accuracy figure of the success lines (str.contains on the company   *)
(* column) is display only; of that computation the model keeps the        *)
(* KeyError it raises on a table without columns.                          *)
(***************************************************************************)
EXTENDS Integers, Sequences, FiniteSets, TLC

(***************************************************************************)
(* Bounds of the model.                                                    *)
(***************************************************************************)
\* search results loaded into the job table over one session
MaxResults == 2

\* employers of one request
MaxEmployers == 2
\* tracked rows the upstream source returns over one request
MaxRows == 2
\* upstream queries that raise over one request
MaxFailures == 1
\* rows of one input of drop_duplicates
MaxRecords == 3
\* records of one table given to ai_filter_jobs
MaxJobs == 2
\* rows of one table given to smart_job_search
MaxTitles == 3

(***************************************************************************)
(* Values.                                                                 *)
(***************************************************************************)
\* Python None as a recency bound (hours_old=None: no recency filter)
None == -1
NaN == "NaN"
Companies == {"Acme", "Globex"}
Locations == {"Seattle, WA"}

\* date_posted as the upstream source gives it: a date, or None
Date(d) == [kind |-> "date", day |-> d]
NoDate == [kind |-> "None", day |-> 0]
\* date_posted after pd.to_datetime(errors='coerce')
Timestamp(d) == [kind |-> "Timestamp", day |-> d]
NaT == [kind |-> "NaT", day |-> 0]

RawRow(u, t, d) ==
    [job_url |-> u, title |-> t, date_posted |-> d,
     search_company |-> NaN, time_range |-> NaN]

\* the postings the upstream source may return: two postings that share
\* a URL and differ in title, and an unrelated posting without a date
Listings ==
    { RawRow("u1", "t1", Date(2)), RawRow("u1", "t2", Date(1)),
      RawRow("u2", "t2", NoDate) }

\* a table with the columns of the upstream schema
DataFrame(rs, n) == [rows |-> rs, bulk |-> n, columns |-> TRUE]
\* pd.DataFrame(): no rows and no columns
EmptyFrame == [rows |-> <<>>, bulk |-> 0, columns |-> FALSE]
\* len(df)
len(df) == Len(df.rows) + df.bulk

(***************************************************************************)
(* Window Planner: the time_ranges literal.                                *)
(***************************************************************************)
Range(s, e, n) == [start_hours |-> s, end_hours |-> e, range_name |-> n]
\* a schedule whose third window starts where the first one ended
ranges_with_overlap ==
    [k \in 1..15 |->
        Range(IF k = 1 THEN None ELSE IF k = 3 THEN 24 ELSE 24 * (k - 1),
              IF k = 15 THEN None ELSE 24 * k,
              "window")]

time_ranges ==
    << Range(None, 24, "Last 24 hours"),
       Range(24, 48, "24-48 hours"),
       Range(48, 72, "48-72 hours"),
       Range(72, 96, "72-96 hours"),
       Range(96, 120, "96-120 hours"),
       Range(120, 144, "120-144 hours"),
       Range(144, 168, "144-168 hours"),
       Range(168, 192, "168-192 hours"),
       Range(192, 216, "192-216 hours"),
       Range(216, 240, "216-240 hours"),
       Range(240, 264, "240-264 hours"),
       Range(264, 288, "264-288 hours"),
       Range(288, 312, "288-312 hours"),
       Range(312, 336, "312-336 hours (2 weeks)"),
       Range(336, None, "Older than 2 weeks") >>
total_ranges == Len(time_ranges)

\* the saturation test's threshold: len(initial_jobs) >= 950
SaturationThreshold == 950

(***************************************************************************)
(* pandas operations on frames.                                            *)
(***************************************************************************)
\* the subset=['job_url', 'title'] of drop_duplicates
KeyOf(r) == <<r.job_url, r.title>>

RECURSIVE SelectIdx(_, _, _)
\* the rows of rs, from index k on, whose index is in keep, in order
SelectIdx(rs, keep, k) ==
    IF k > Len(rs) THEN <<>>
    ELSE IF k \in keep THEN <<rs[k]>> \o SelectIdx(rs, keep, k + 1)
    ELSE SelectIdx(rs, keep, k + 1)

\* a wrong keep policy: keep='last'
KeepLast(rs) ==
    SelectIdx(rs, {k \in 1..Len(rs) :
                     \A j \in (k + 1)..Len(rs) : KeyOf(rs[j]) # KeyOf(rs[k])}, 1)

\* rows.drop_duplicates(subset=['job_url', 'title'], keep='first')
KeepFirst(rs) ==
    SelectIdx(rs, {k \in 1..Len(rs) :
                     \A j \in 1..(k - 1) : KeyOf(rs[j]) # KeyOf(rs[k])}, 1)

\* a wrong merge: the latest copy of a listing survives
drop_duplicates_last(df) == [df EXCEPT !.rows = KeepLast(@)]

\* df.drop_duplicates(subset=['job_url', 'title'], keep='first')
drop_duplicates(df) == [df EXCEPT !.rows = KeepFirst(@)]

RECURSIVE concat(_)
\* pd.concat(frames, ignore_index=True)
concat(frames) ==
    IF frames = <<>> THEN EmptyFrame
    ELSE LET rest == concat(Tail(frames))
         IN  [rows |-> Head(frames).rows \o rest.rows,
              bulk |-> Head(frames).bulk + rest.bulk,
              columns |-> Head(frames).columns \/ rest.columns]

\* a batch left without its employer tag
Untagged(df, company) == df

\* df['search_company'] = company
SetSearchCompany(df, company) ==
    [df EXCEPT !.rows = [k \in 1..Len(@) |-> [@[k] EXCEPT !.search_company = company]]]

\* df['time_range'] = range_name
SetTimeRange(df, name) ==
    [df EXCEPT !.rows = [k \in 1..Len(@) |-> [@[k] EXCEPT !.time_range = name]]]

\* a conversion that loses every date
CoerceAll(d) == NaT

\* pd.to_datetime(value, errors='coerce') of one date_posted value
to_datetime(d) ==
    IF d.kind = "date" THEN Timestamp(d.day)
    ELSE IF d.kind = "Timestamp" THEN d
    ELSE NaT

\* df['date_posted'] = pd.to_datetime(df['date_posted'], errors='coerce')
ConvertDates(df) ==
    [df EXCEPT !.rows = [k \in 1..Len(@) |->
                            [@[k] EXCEPT !.date_posted = to_datetime(@)]]]

\* a before b in sort_values('date_posted', ascending=False): NaT last
DateBefore(a, b) ==
    \/ a.kind = "Timestamp" /\ b.kind = "NaT"
    \/ a.kind = "Timestamp" /\ b.kind = "Timestamp" /\ a.day > b.day

IndexPermutations(n) ==
    {p \in [1..n -> 1..n] : \A x, y \in 1..n : x # y => p[x] # p[y]}

\* df.sort_values('date_posted', ascending=False): the default sort kind is
\* not stable, so rows with equal dates come out in any order
sort_by_date(df) ==
    { [df EXCEPT !.rows = [k \in 1..Len(@) |-> @[p[k]]]] :
        p \in {q \in IndexPermutations(Len(df.rows)) :
                 \A x, y \in 1..Len(df.rows) :
                    x < y => ~DateBefore(df.rows[q[y]].date_posted,
                                         df.rows[q[x]].date_posted)} }

(***************************************************************************)
(* State.                                                                  *)
(***************************************************************************)
VARIABLES
    \* the request: scrape_multiple_companies(companies, location, hours_old,
    \* results_wanted)
    companies, location, hours_old, results_wanted,
    \* scrape_multiple_companies: position and locals
    pc, i, w, initial_jobs, company_jobs, all_jobs,
    combined_jobs, duplicates_removed,
    \* what the page shows: one st.success / st.error line per employer, and
    \* the current employer's "Detailed Progress" expander
    report, detailed_progress,
    \* the upstream calls made for the current employer, in order, each with
    \* its arguments and its outcome
    queries,
    \* tracked rows fetched and upstream failures so far (they bound the model)
    fetched, failures,
    \* one application of drop_duplicates: its input rows and its output
    records, deduped,
    \* analyze_duplicates(jobs_df): the dictionary it returns, <<>> before the
    \* call (its table is records)
    duplicate_analysis,
    \* ai_filter_jobs(jobs_df, user_target, min_score): arguments, position
    \* and locals, and the frame it returns
    jobs_df, user_target, min_score, ai_pc, idx, scored_jobs, log_lines, ai_result,
    \* the outcomes of the model calls made so far, one per record, in order
    replies,
    \* smart_job_search(jobs_df, search_query): the query, position, and the
    \* frame it returns (its table is jobs_df)
    search_query, search_pc, filtered_jobs,
    \* main: the text of the Companies box, position, and the closing
    \* st.error / st.success line
    companies_input, main_pc, message,
    \* the job table: st.session_state with the values of the table's
    \* widgets, and what the last script run put on the page
    session_state, rendered

request == <<companies, location, hours_old, results_wanted>>
collector == <<pc, i, w, initial_jobs, company_jobs, all_jobs,
               combined_jobs, duplicates_removed, report, detailed_progress,
               queries, fetched, failures>>
dedupe == <<records, deduped, duplicate_analysis>>
ai == <<jobs_df, user_target, min_score, ai_pc, idx, scored_jobs, log_lines,
        ai_result, replies>>
lexical == <<search_query, search_pc, filtered_jobs>>
table == <<session_state, rendered>>
page == <<companies_input, main_pc, message, table>>
vars == <<request, collector, dedupe, ai, lexical, page>>

(***************************************************************************)
(* The upstream source: scrape_jobs returns a table or raises.             *)
(***************************************************************************)
RowSeqs(n) == UNION {[1..k -> Listings] : k \in 0..n}

\* the tables a first query may return, at most cap rows: pd.DataFrame(),
\* tables of tracked rows alone (an empty table with columns among them),
\* and tables of threshold - 1 and of threshold rows
FirstResponses(cap, room) ==
    {f \in {EmptyFrame}
            \cup {DataFrame(rs, 0) : rs \in RowSeqs(room)}
            \cup {DataFrame(rs, SaturationThreshold - 1) :
                     rs \in RowSeqs(IF room > 0 THEN 1 ELSE 0)}
            \cup {DataFrame(<<>>, SaturationThreshold)} :
        len(f) <= cap}

\* the windows in which the upstream source has postings or fails; in the
\* other windows it returns an empty table
VariedWindows == {1, 2, 3}

\* the tables a window query may return: one tracked row, or no rows (the
\* window loop reads no column of a table without rows, so pd.DataFrame()
\* stands for every empty table)
WindowResponses(k, room) ==
    {EmptyFrame}
       \cup (IF k \in VariedWindows /\ room > 0
             THEN {DataFrame(<<r>>, 0) : r \in Listings}
             ELSE {})

\* at most one employer of a request has threshold or more postings
OneSaturatedEmployer ==
    \A k \in 1..Len(report) : report[k].kind \in {"error", "simple search"}

\* scrape_jobs(site_name=['indeed'], indeed_company_id=company,
\*             location=location, results_wanted=results_wanted,
\*             hours_old=h, verbose=0)
Query(c, h) ==
    [indeed_company_id |-> c, location |-> location,
     results_wanted |-> results_wanted, hours_old |-> h]

\* an upstream call that returned df, and one that raised
Returned(q, df) == [args |-> q, raised |-> FALSE, frame |-> df]
Raised(q) == [args |-> q, raised |-> TRUE, frame |-> EmptyFrame]

(***************************************************************************)
(* scrape_multiple_companies.                                              *)
(***************************************************************************)
\* the employer lists of a request; the names are interchangeable, so the
\* first employer is always Acme
EmployerLists ==
    {s \in UNION {[1..k -> Companies] : k \in 1..MaxEmployers} : s[1] = "Acme"}

\* hours_old and results_wanted of a request: the page's own (no recency
\* filter, results_wanted = 5000) and a request with both set lower
RequestLimits == {<<None, 5000>>, <<72, 1000>>}

InitCollector ==
    /\ i = 1
    /\ w = 1
    /\ initial_jobs = EmptyFrame
    /\ company_jobs = <<>>
    /\ all_jobs = <<>>
    /\ combined_jobs = EmptyFrame
    /\ duplicates_removed = 0
    /\ report = <<>>
    /\ detailed_progress = <<>>
    /\ queries = <<>>
    /\ fetched = 0
    /\ failures = 0

InitRequest ==
    /\ companies \in EmployerLists
    /\ location \in Locations
    /\ \E lim \in RequestLimits : hours_old = lim[1] /\ results_wanted = lim[2]

NoDedupe == records = <<>> /\ deduped = <<>> /\ duplicate_analysis = <<>>

NoAI ==
    /\ jobs_df = <<>>
    /\ user_target = <<>>
    /\ min_score = 0
    /\ ai_pc = "off"
    /\ idx = 1
    /\ scored_jobs = <<>>
    /\ log_lines = <<>>
    /\ ai_result = <<>>
    /\ replies = <<>>

NoSearch == search_query = <<>> /\ search_pc = "off" /\ filtered_jobs = <<>>

\* no job table on the page
NoTable == session_state = [jobs_data |-> 0] /\ rendered = [outcome |-> "welcome"]

NoMain ==
    /\ companies_input = <<>> /\ main_pc = "off" /\ message = ""
    /\ NoTable

Init ==
    /\ InitRequest /\ pc = "first" /\ InitCollector /\ NoDedupe /\ NoAI
    /\ NoSearch /\ NoMain

company == companies[i]

Line(c, kind, n) == [company |-> c, kind |-> kind, jobs |-> n]
Progress(name, kind, n) == [range_name |-> name, kind |-> kind, jobs |-> n]

\* a saturation test against 95% of results_wanted
SaturatedByCap(df) == len(df) * 100 >= 95 * results_wanted

\* the saturation test: len(initial_jobs) >= 950
Saturated(df) == len(df) >= SaturationThreshold

\* after the loop: combine all results, drop duplicates across employers,
\* sort by date posted
Combine(aj) ==
    IF aj # <<>>
    THEN LET combined == concat(aj)
             deduped_jobs == drop_duplicates(combined)
         IN  /\ duplicates_removed' = len(combined) - len(deduped_jobs)
             /\ combined_jobs' \in sort_by_date(ConvertDates(deduped_jobs))
    ELSE /\ combined_jobs' = EmptyFrame
         /\ UNCHANGED duplicates_removed

\* the end of one iteration of the employer loop
NextCompany(aj) ==
    /\ all_jobs' = aj
    /\ IF i < Len(companies)
       THEN /\ i' = i + 1
            /\ pc' = "first"
            /\ UNCHANGED <<combined_jobs, duplicates_removed>>
       ELSE /\ i' = i
            /\ pc' = "done"
            /\ Combine(aj)

\* a handler that ends the whole request when one employer fails
AbortRequest(aj) ==
    /\ all_jobs' = aj
    /\ i' = i
    /\ pc' = "done"
    /\ Combine(aj)

\* except Exception as e: st.error(...); continue
OnEmployerError(aj) == NextCompany(aj)

\* the first query of an employer raises
FirstQueryRaises ==
    /\ pc = "first"
    /\ failures < MaxFailures
    /\ failures' = failures + 1
    /\ queries' = <<Raised(Query(company, hours_old))>>
    /\ report' = Append(report, Line(company, "error", 0))
    /\ OnEmployerError(all_jobs)
    /\ UNCHANGED <<request, w, initial_jobs, company_jobs, detailed_progress,
                   fetched, dedupe, ai, lexical,
                   page>>

\* the first query of an employer returns pd.DataFrame(), a table without
\* the columns of the upstream schema: initial_jobs['company'] raises
\* KeyError after search_company is set, and the employer's handler reports
\* the employer as failed
FirstQueryReturnsNoColumns ==
    /\ pc = "first"
    /\ \E f \in FirstResponses(results_wanted, MaxRows - fetched) :
          /\ ~Saturated(f)
          /\ ~f.columns
          /\ queries' = <<Returned(Query(company, hours_old), f)>>
          /\ initial_jobs' = SetSearchCompany(f, company)
    /\ report' = Append(report, Line(company, "error", 0))
    /\ OnEmployerError(all_jobs)
    /\ UNCHANGED <<request, w, company_jobs, detailed_progress, fetched, failures,
                   dedupe, ai, lexical,
                   page>>

\* the first query of an employer returns fewer rows than the threshold:
\* the simple single search result
FirstQueryReturns ==
    /\ pc = "first"
    /\ \E f \in FirstResponses(results_wanted, MaxRows - fetched) :
          /\ ~Saturated(f)
          /\ f.columns
          /\ fetched' = fetched + Len(f.rows)
          /\ queries' = <<Returned(Query(company, hours_old), f)>>
          /\ initial_jobs' = SetSearchCompany(f, company)
          /\ report' = Append(report, Line(company, "simple search", len(f)))
          /\ NextCompany(Append(all_jobs, SetSearchCompany(f, company)))
    /\ UNCHANGED <<request, w, company_jobs, detailed_progress, failures, dedupe, ai, lexical,
                   page>>

\* the first query of an employer returns at least threshold rows: go to
\* the time-based search
FirstQuerySaturated ==
    /\ pc = "first"
    /\ OneSaturatedEmployer
    /\ \E f \in FirstResponses(results_wanted, MaxRows - fetched) :
          /\ Saturated(f)
          /\ fetched' = fetched + Len(f.rows)
          /\ queries' = <<Returned(Query(company, hours_old), f)>>
          /\ initial_jobs' = f
    /\ company_jobs' = <<>>
    /\ detailed_progress' = <<>>
    /\ w' = 1
    /\ pc' = "window"
    /\ UNCHANGED <<request, i, all_jobs, combined_jobs, duplicates_removed,
                   report, failures, dedupe, ai, lexical,
                   page>>

\* a fallback that drops the employer
FallbackDropped(df, c) == EmptyFrame

\* the fallback to the initial results: initial_jobs['search_company'] = company
Fallback(df, c) == SetSearchCompany(df, c)

\* after the window loop: combine and deduplicate the employer's windows,
\* or fall back to the first query's table
AfterWindows(cj) ==
    IF cj # <<>>
    THEN LET combined_company_jobs ==
                 SetSearchCompany(drop_duplicates(concat(cj)), company)
         IN  /\ report' = Append(report,
                    Line(company, "time-based search", len(combined_company_jobs)))
             /\ NextCompany(Append(all_jobs, combined_company_jobs))
             /\ UNCHANGED initial_jobs
    ELSE /\ initial_jobs' = Fallback(initial_jobs, company)
         /\ report' = Append(report, Line(company, "fallback", len(initial_jobs)))
         /\ NextCompany(Append(all_jobs, Fallback(initial_jobs, company)))

\* a window loop that leaves after its first iteration
SkipWindows(cj) ==
    /\ company_jobs' = cj
    /\ w' = w
    /\ AfterWindows(cj)

\* a window loop that queries its window again
RetryWindow(cj) ==
    /\ company_jobs' = cj
    /\ UNCHANGED <<w, pc, i, initial_jobs, all_jobs, combined_jobs,
                   duplicates_removed, report>>

\* the end of one iteration of the window loop
NextWindow(cj) ==
    /\ company_jobs' = cj
    /\ IF w < total_ranges
       THEN /\ w' = w + 1
            /\ UNCHANGED <<pc, i, initial_jobs, all_jobs, combined_jobs,
                           duplicates_removed, report>>
       ELSE /\ w' = w
            /\ AfterWindows(cj)

\* a window query with the request's own recency bound
WindowQueryOwnBound(k) == Query(company, hours_old)

\* the query of window k: hours_old=end_hours
WindowQuery(k) == Query(company, time_ranges[k].end_hours)

\* a handler that forgets the windows collected so far
OnWindowErrorReset(cj) == <<>>

\* except Exception as e: st.warning(...); completed_ranges += 1; continue
OnWindowError(cj) == cj

\* the query of window w raises
WindowQueryRaises ==
    /\ pc = "window"
    /\ w \in VariedWindows
    /\ failures < MaxFailures
    /\ failures' = failures + 1
    /\ queries' = Append(queries, Raised(WindowQuery(w)))
    /\ detailed_progress' =
          Append(detailed_progress, Progress(time_ranges[w].range_name, "error", 0))
    /\ NextWindow(OnWindowError(company_jobs))
    /\ UNCHANGED <<request, fetched, dedupe, ai, lexical,
                   page>>

\* the query of window w returns a table
WindowQueryReturns ==
    /\ pc = "window"
    /\ \E range_jobs \in WindowResponses(w, MaxRows - fetched) :
          /\ fetched' = fetched + Len(range_jobs.rows)
          /\ queries' = Append(queries, Returned(WindowQuery(w), range_jobs))
          /\ detailed_progress' =
                Append(detailed_progress,
                       Progress(time_ranges[w].range_name, "jobs", len(range_jobs)))
          /\ IF len(range_jobs) > 0
             THEN NextWindow(Append(company_jobs,
                                    SetTimeRange(range_jobs, time_ranges[w].range_name)))
             ELSE NextWindow(company_jobs)
    /\ UNCHANGED <<request, failures, dedupe, ai, lexical,
                   page>>

Next ==
    \/ FirstQueryRaises
    \/ FirstQueryReturnsNoColumns
    \/ FirstQueryReturns
    \/ FirstQuerySaturated
    \/ WindowQueryRaises
    \/ WindowQueryReturns

\* every upstream call returns or raises: the collector is never stuck
\* in a call
SpecReturning == Init /\ [][Next]_vars /\ WF_vars(Next)

Spec == Init /\ [][Next]_vars

(***************************************************************************)
(* drop_duplicates on its own: every input of up to MaxRecords rows.       *)
(***************************************************************************)
\* the rows of an input: the postings of the upstream source, and a second
\* copy of one of them with another date
Postings == Listings \cup {RawRow("u1", "t1", Date(1))}

InitDedupe ==
    /\ records \in UNION {[1..k -> Postings] : k \in 0..MaxRecords}
    /\ deduped = <<>>
    /\ duplicate_analysis = <<>>
    /\ companies = <<"Acme">>
    /\ location \in Locations
    /\ hours_old = None
    /\ results_wanted = SaturationThreshold
    /\ InitCollector
    /\ pc = "dedupe"
    /\ NoAI
    /\ NoSearch
    /\ NoMain

\* df.drop_duplicates(subset=['job_url', 'title'], keep='first')
Dedupe ==
    /\ pc = "dedupe"
    /\ deduped' = drop_duplicates(DataFrame(records, 0)).rows
    /\ pc' = "deduped"
    /\ UNCHANGED <<request, records, duplicate_analysis, i, w, initial_jobs,
                   company_jobs, all_jobs, combined_jobs, duplicates_removed,
                   report, detailed_progress, queries, fetched, failures, ai,
                   lexical, page>>

NextDedupe == Dedupe

SpecDedupe == InitDedupe /\ [][NextDedupe]_vars

(***************************************************************************)
(* analyze_duplicates of app.py.                                           *)
(***************************************************************************)
\* the rows of the table that analyze_duplicates reads: the direct URL (NaN
\* when the source gave none), the title and the location
AnalysedRows ==
    [job_url_direct : {"d1", "d2", NaN}, title : {"t1"}, location : {"l1", "l2"}]

\* the subsets of columns of the two duplicated calls
UrlDirect(r) == r.job_url_direct
TitleLocation(r) == <<r.title, r.location>>

\* df[df.duplicated(subset=['job_url_direct'], keep=False)]: the indices of
\* the rows whose direct URL another row shares
DuplicatedByUrl(rs) ==
    {k \in 1..Len(rs) :
        \E j \in 1..Len(rs) : j # k /\ UrlDirect(rs[j]) = UrlDirect(rs[k])}

\* df[df.duplicated(subset=['title', 'location'], keep=False)]
DuplicatedByTitleLocation(rs) ==
    {k \in 1..Len(rs) :
        \E j \in 1..Len(rs) :
            j # k /\ TitleLocation(rs[j]) = TitleLocation(rs[k])}

\* a / b * 100 as the fraction it is
Percent(a, b) == [num |-> a * 100, den |-> b]

\* the dictionary that analyze_duplicates(jobs_df) returns
analyze_duplicates(rs) ==
    LET url_duplicates == DuplicatedByUrl(rs)
        title_location_duplicates == DuplicatedByTitleLocation(rs)
    IN  [url_duplicates |-> Cardinality(url_duplicates),
         title_location_duplicates |-> Cardinality(title_location_duplicates),
         total_duplicates |-> Cardinality(url_duplicates)
                                + Cardinality(title_location_duplicates),
         duplicate_rate |->
            IF Len(rs) > 0
            THEN Percent(Cardinality(url_duplicates)
                            + Cardinality(title_location_duplicates), Len(rs))
            ELSE Percent(0, 1)]

InitAnalyze ==
    /\ records \in UNION {[1..k -> AnalysedRows] : k \in 0..MaxRecords}
    /\ deduped = <<>>
    /\ duplicate_analysis = <<>>
    /\ companies = <<"Acme">>
    /\ location \in Locations
    /\ hours_old = None
    /\ results_wanted = SaturationThreshold
    /\ InitCollector
    /\ pc = "analyze"
    /\ NoAI
    /\ NoSearch
    /\ NoMain

\* duplicate_analysis = analyze_duplicates(combined_jobs)
AnalyzeDuplicates ==
    /\ pc = "analyze"
    /\ duplicate_analysis' = <<analyze_duplicates(records)>>
    /\ pc' = "analyzed"
    /\ UNCHANGED <<request, records, deduped, i, w, initial_jobs, company_jobs,
                   all_jobs, combined_jobs, duplicates_removed, report,
                   detailed_progress, queries, fetched, failures, ai, lexical,
                   page>>

NextAnalyze == AnalyzeDuplicates

SpecAnalyze == InitAnalyze /\ [][NextAnalyze]_vars

(***************************************************************************)
(* Text: a string is a sequence of characters.                             *)
(***************************************************************************)
\* \s of the re module, and the characters str.strip() removes
IsSpace(c) == c \in {" ", "\n", "\t"}
\* \d of the re module
IsDigit(c) == c \in {"0", "1", "2", "3", "4", "5", "6", "7", "8", "9"}
DigitValue(c) ==
    CASE c = "0" -> 0 [] c = "1" -> 1 [] c = "2" -> 2 [] c = "3" -> 3
      [] c = "4" -> 4 [] c = "5" -> 5 [] c = "6" -> 6 [] c = "7" -> 7
      [] c = "8" -> 8 [] c = "9" -> 9

RECURSIVE int(_)
\* int(digits)
int(ds) ==
    IF ds = <<>> THEN 0
    ELSE 10 * int(SubSeq(ds, 1, Len(ds) - 1)) + DigitValue(ds[Len(ds)])

\* str.strip()
strip(s) ==
    LET solid == {k \in 1..Len(s) : ~IsSpace(s[k])}
    IN  IF solid = {} THEN <<>>
        ELSE SubSeq(s, CHOOSE k \in solid : \A j \in solid : k <= j,
                       CHOOSE k \in solid : \A j \in solid : j <= k)

\* the literal lit stands in s at position p
MatchAt(s, p, lit) ==
    /\ p + Len(lit) - 1 <= Len(s)
    /\ \A k \in 1..Len(lit) : s[p + k - 1] = lit[k]

\* the end of the greedy \s* that starts at p: the first position from p on
\* that holds no whitespace
SkipSpaces(s, p) ==
    CHOOSE q \in p..(Len(s) + 1) :
       /\ \A r \in p..(q - 1) : IsSpace(s[r])
       /\ q = Len(s) + 1 \/ ~IsSpace(s[q])

\* the end of the greedy \d+ that starts at p: the first position from p on
\* that holds no digit
DigitsEnd(s, p) ==
    CHOOSE q \in p..(Len(s) + 1) :
       /\ \A r \in p..(q - 1) : IsDigit(s[r])
       /\ q = Len(s) + 1 \/ ~IsDigit(s[q])

Least(S) == CHOOSE k \in S : \A j \in S : k <= j

NoMatch == [found |-> FALSE, group |-> <<>>]
Match(g) == [found |-> TRUE, group |-> g]

ScoreLabel == <<"S", "C", "O", "R", "E", ":">>
ConfidenceLabel == <<"C", "O", "N", "F", "I", "D", "E", "N", "C", "E", ":">>
ReasoningLabel == <<"R", "E", "A", "S", "O", "N", "I", "N", "G", ":">>
HIGH == <<"H", "I", "G", "H">>
MEDIUM == <<"M", "E", "D", "I", "U", "M">>
LOW == <<"L", "O", "W">>

\* re.search(r'SCORE:\s*(\d+)', s)
score_match(s) ==
    LET at == {p \in 1..Len(s) :
                 /\ MatchAt(s, p, ScoreLabel)
                 /\ LET q == SkipSpaces(s, p + Len(ScoreLabel))
                    IN  q <= Len(s) /\ IsDigit(s[q])}
    IN  IF at = {} THEN NoMatch
        ELSE LET q == SkipSpaces(s, Least(at) + Len(ScoreLabel))
             IN  Match(SubSeq(s, q, DigitsEnd(s, q) - 1))

\* re.search(r'CONFIDENCE:\s*(HIGH|MEDIUM|LOW)', s)
confidence_match(s) ==
    LET Word(p) == LET q == SkipSpaces(s, p + Len(ConfidenceLabel))
                   IN  IF MatchAt(s, q, HIGH) THEN HIGH
                       ELSE IF MatchAt(s, q, MEDIUM) THEN MEDIUM
                       ELSE IF MatchAt(s, q, LOW) THEN LOW
                       ELSE <<>>
        at == {p \in 1..Len(s) : MatchAt(s, p, ConfidenceLabel) /\ Word(p) # <<>>}
    IN  IF at = {} THEN NoMatch ELSE Match(Word(Least(at)))

\* re.search(r'REASONING:\s*(.+)', s, re.DOTALL): \s* gives back its last
\* character when nothing else is left for .+
reasoning_match(s) ==
    LET at == {p \in 1..Len(s) :
                 MatchAt(s, p, ReasoningLabel) /\ p + Len(ReasoningLabel) <= Len(s)}
    IN  IF at = {} THEN NoMatch
        ELSE LET q == SkipSpaces(s, Least(at) + Len(ReasoningLabel))
             IN  Match(SubSeq(s, IF q <= Len(s) THEN q ELSE Len(s), Len(s)))

\* re.search(r'(\d+)', s)
number_match(s) ==
    LET at == {p \in 1..Len(s) : IsDigit(s[p])}
    IN  IF at = {} THEN NoMatch
        ELSE Match(SubSeq(s, Least(at), DigitsEnd(s, Least(at)) - 1))

(***************************************************************************)
(* The model's replies: response.choices[0].message.content.               *)
(***************************************************************************)
NL == <<"\n">>
SP == <<" ">>
Ok == <<"o", "k">>

\* "SCORE: 45\nCONFIDENCE: HIGH\nREASONING: ok"
ReplyLow ==
    ScoreLabel \o <<" ", "4", "5">> \o NL \o ConfidenceLabel \o SP \o HIGH \o NL
       \o ReasoningLabel \o SP \o Ok
\* "SCORE:50\nCONFIDENCE:LOW\nREASONING:ok"
ReplyEdge ==
    ScoreLabel \o <<"5", "0">> \o NL \o ConfidenceLabel \o LOW \o NL
       \o ReasoningLabel \o Ok
\* " SCORE: 85\nCONFIDENCE: MEDIUM\nREASONING: ok\n"
ReplyHigh ==
    SP \o ScoreLabel \o <<" ", "8", "5">> \o NL \o ConfidenceLabel \o SP \o MEDIUM \o NL
       \o ReasoningLabel \o SP \o Ok \o NL
\* "SCORE: 250\nCONFIDENCE: HIGH\nREASONING: ok"
ReplyOver ==
    ScoreLabel \o <<" ", "2", "5", "0">> \o NL \o ConfidenceLabel \o SP \o HIGH \o NL
       \o ReasoningLabel \o SP \o Ok
\* "SCORE: 85\nCONFIDENCE: HIGH\nREASONING: "
ReplyNoReasoning ==
    ScoreLabel \o <<" ", "8", "5">> \o NL \o ConfidenceLabel \o SP \o HIGH \o NL
       \o ReasoningLabel \o SP
\* "rate 72."
ReplyProse == <<"r", "a", "t", "e", " ", "7", "2", ".">>
\* "120%"
ReplyPercent == <<"1", "2", "0", "%">>
\* "GPT4: 72"
ReplyModelName == <<"G", "P", "T", "4", ":", " ", "7", "2">>
\* "n/a"
ReplyNoNumber == <<"n", "/", "a">>

Replies ==
    {ReplyLow, ReplyEdge, ReplyHigh, ReplyOver, ReplyNoReasoning, ReplyProse,
     ReplyPercent, ReplyModelName, ReplyNoNumber}

Replied(text) == [raised |-> FALSE, content |-> text]
CallFailed == [raised |-> TRUE, content |-> <<>>]

(***************************************************************************)
(* ai_filter_jobs.                                                         *)
(***************************************************************************)
\* the records of the table to score: the merged result's rows
Job(u, t) ==
    [RawRow(u, t, Timestamp(1)) EXCEPT !.search_company = "Acme"]
AllJobs == <<Job("u1", "t1"), Job("u1", "t2"), Job("u2", "t1"), Job("u2", "t2")>>

\* the user's target: empty, blank, or a description
Targets == {<<>>, SP, <<"m", "l">>}
\* the slider's value
MinScores == {0, 50, 100}

InitAI ==
    /\ \E n \in 0..MaxJobs : jobs_df = SubSeq(AllJobs, 1, n)
    /\ user_target \in Targets
    /\ min_score \in MinScores
    /\ ai_pc = "start"
    /\ idx = 1
    /\ scored_jobs = <<>>
    /\ log_lines = <<>>
    /\ ai_result = <<>>
    /\ replies = <<>>
    /\ companies = <<"Acme">>
    /\ location \in Locations
    /\ hours_old = None
    /\ results_wanted = SaturationThreshold
    /\ pc = "off"
    /\ InitCollector
    /\ NoDedupe
    /\ NoSearch
    /\ NoMain

\* job_with_score: job.copy() with ai_score, ai_confidence, ai_reasoning
Scored(job, score, confidence, reasoning) ==
    [job |-> job, ai_score |-> score, ai_confidence |-> confidence,
     ai_reasoning |-> reasoning]

\* a keep rule that drops a record whose score equals min_score
KeepAbove(score) == score > min_score

\* if score >= min_score: scored_jobs.append(job_with_score)
Keep(score) == score >= min_score

\* a fallback that takes the number as it stands
Unclamped(n) == n

\* min(100, max(0, n))
Clamp(n) ==
    LET low == IF n > 0 THEN n ELSE 0
    IN  IF low < 100 THEN low ELSE 100

\* the scored rows left in the order of the input
Unsorted(rows) == {rows}

\* scored_df.sort_values('ai_score', ascending=False): rows with equal
\* scores come out in any order
sort_by_score(rows) ==
    { [k \in 1..Len(rows) |-> rows[p[k]]] :
        p \in {q \in IndexPermutations(Len(rows)) :
                 \A x, y \in 1..Len(rows) :
                    x < y => rows[q[x]].ai_score >= rows[q[y]].ai_score} }

\* not user_target or user_target.strip() == ""
Blank(s) == s = <<>> \/ strip(s) = <<>>

\* after the loop: the scored rows sorted by score, or an empty frame
ReturnScored(sj) ==
    IF sj # <<>> THEN ai_result' \in sort_by_score(sj) ELSE ai_result' = <<>>

\* the end of one iteration of the record loop
NextJob(sj) ==
    /\ scored_jobs' = sj
    /\ idx' = idx + 1
    /\ IF idx < Len(jobs_df)
       THEN ai_pc' = "scoring" /\ UNCHANGED ai_result
       ELSE ai_pc' = "returned" /\ ReturnScored(sj)

\* the early return: jobs_df itself
AIReturnsInput ==
    /\ ai_pc = "start"
    /\ Blank(user_target)
    /\ ai_pc' = "returned input"
    /\ UNCHANGED <<jobs_df, user_target, min_score, idx, scored_jobs, log_lines,
                   ai_result, replies, request, collector, dedupe,
                   lexical, page>>

\* a table without records: the loop body never runs
AIReturnsEmpty ==
    /\ ai_pc = "start"
    /\ ~Blank(user_target)
    /\ jobs_df = <<>>
    /\ ai_pc' = "returned"
    /\ ReturnScored(scored_jobs)
    /\ UNCHANGED <<jobs_df, user_target, min_score, idx, scored_jobs, log_lines,
                   replies, request, collector, dedupe,
                   lexical, page>>

Calling ==
    /\ ai_pc \in {"start", "scoring"}
    /\ ~Blank(user_target)
    /\ idx <= Len(jobs_df)

\* a handler that ends the scoring at the first failed call
StopScoring(sj) ==
    /\ scored_jobs' = sj
    /\ idx' = idx + 1
    /\ ai_pc' = "returned"
    /\ ReturnScored(sj)

\* except Exception as e: log_lines.append(...); continue
OnModelError(sj) == NextJob(sj)

\* the model call for record idx raises, or its content is no string
ModelCallRaises ==
    /\ Calling
    /\ replies' = Append(replies, CallFailed)
    /\ log_lines' = Append(log_lines, "AI error")
    /\ OnModelError(scored_jobs)
    /\ UNCHANGED <<jobs_df, user_target, min_score, request, collector, dedupe,
                   lexical, page>>

\* the model call for record idx returns content that has all three fields
ModelRepliesStructured ==
    /\ Calling
    /\ \E content \in Replies :
          LET ai_response == strip(content)
              sm == score_match(ai_response)
              cm == confidence_match(ai_response)
              rm == reasoning_match(ai_response)
              score == int(sm.group)
          IN  /\ sm.found /\ cm.found /\ rm.found
              /\ replies' = Append(replies, Replied(content))
              /\ log_lines' = Append(log_lines, "scored")
              /\ IF Keep(score)
                 THEN NextJob(Append(scored_jobs,
                                     Scored(jobs_df[idx], score, cm.group, strip(rm.group))))
                 ELSE NextJob(scored_jobs)
    /\ UNCHANGED <<jobs_df, user_target, min_score, request, collector, dedupe,
                   lexical, page>>

\* the model call for record idx returns content that lacks a field: the
\* fallback parsing
ModelRepliesOther ==
    /\ Calling
    /\ \E content \in Replies :
          LET ai_response == strip(content)
              number == number_match(ai_response)
              score == Clamp(int(number.group))
          IN  /\ ~(/\ score_match(ai_response).found
                   /\ confidence_match(ai_response).found
                   /\ reasoning_match(ai_response).found)
              /\ replies' = Append(replies, Replied(content))
              /\ log_lines' = Append(log_lines, "AI parsing error, using fallback")
              /\ IF number.found /\ Keep(score)
                 THEN NextJob(Append(scored_jobs,
                                     Scored(jobs_df[idx], score, LOW,
                                            <<"f", "a", "l", "l", "b", "a", "c", "k">>)))
                 ELSE NextJob(scored_jobs)
    /\ UNCHANGED <<jobs_df, user_target, min_score, request, collector, dedupe,
                   lexical, page>>

NextAI ==
    \/ AIReturnsInput
    \/ AIReturnsEmpty
    \/ ModelCallRaises
    \/ ModelRepliesStructured
    \/ ModelRepliesOther

SpecAI == InitAI /\ [][NextAI]_vars

(***************************************************************************)
(* smart_job_search and create_job_synonyms.                               *)
(***************************************************************************)
Uppercase ==
    <<"A", "B", "C", "D", "E", "F", "G", "H", "I", "J", "K", "L", "M",
      "N", "O", "P", "Q", "R", "S", "T", "U", "V", "W", "X", "Y", "Z">>
Lowercase ==
    <<"a", "b", "c", "d", "e", "f", "g", "h", "i", "j", "k", "l", "m",
      "n", "o", "p", "q", "r", "s", "t", "u", "v", "w", "x", "y", "z">>

\* str.lower()
lower(s) ==
    [k \in 1..Len(s) |->
        IF \E u \in 1..Len(Uppercase) : Uppercase[u] = s[k]
        THEN Lowercase[CHOOSE u \in 1..Len(Uppercase) : Uppercase[u] = s[k]]
        ELSE s[k]]

RECURSIVE split(_)
\* str.split(): the runs of characters between whitespace
split(s) ==
    LET t == strip(s)
        stops == {p \in 1..Len(t) : IsSpace(t[p])}
    IN  IF t = <<>> THEN <<>>
        ELSE IF stops = {} THEN <<t>>
        ELSE <<SubSeq(t, 1, Least(stops) - 1)>> \o split(SubSeq(t, Least(stops), Len(t)))

\* sub in s
Contains(sub, s) == \E p \in 1..(Len(s) + 1) : MatchAt(s, p, sub)

\* the synonyms literal of create_job_synonyms: pairs of a key and its terms
synonyms ==
    <<
       <<<<"p", "r", "o", "d", "u", "c", "t", " ", "m", "a", "n", "a", "g", "e", "r">>,
         <<<<"p", "r", "o", "d", "u", "c", "t", " ", "m", "a", "n", "a", "g", "e", "r">>,
           <<"p", "r", "o", "g", "r", "a", "m", " ", "m", "a", "n", "a", "g", "e", "r">>,
           <<"p", "r", "o", "d", "u", "c", "t", " ", "o", "w", "n", "e", "r">>,
           <<"p", "m">>>>>>,
       <<<<"p", "r", "o", "g", "r", "a", "m", " ", "m", "a", "n", "a", "g", "e", "r">>,
         <<<<"p", "r", "o", "g", "r", "a", "m", " ", "m", "a", "n", "a", "g", "e", "r">>,
           <<"p", "r", "o", "d", "u", "c", "t", " ", "m", "a", "n", "a", "g", "e", "r">>,
           <<"p", "r", "o", "j", "e", "c", "t", " ", "m", "a", "n", "a", "g", "e", "r">>,
           <<"p", "m">>>>>>,
       <<<<"p", "r", "o", "j", "e", "c", "t", " ", "m", "a", "n", "a", "g", "e", "r">>,
         <<<<"p", "r", "o", "j", "e", "c", "t", " ", "m", "a", "n", "a", "g", "e", "r">>,
           <<"p", "r", "o", "g", "r", "a", "m", " ", "m", "a", "n", "a", "g", "e", "r">>,
           <<"p", "r", "o", "d", "u", "c", "t", " ", "m", "a", "n", "a", "g", "e", "r">>,
           <<"p", "m">>>>>>,
       <<<<"s", "o", "f", "t", "w", "a", "r", "e", " ", "e", "n", "g", "i", "n", "e", "e", "r">>,
         <<<<"s", "o", "f", "t", "w", "a", "r", "e", " ", "e", "n", "g", "i", "n", "e", "e", "r">>,
           <<"d", "e", "v", "e", "l", "o", "p", "e", "r">>,
           <<"p", "r", "o", "g", "r", "a", "m", "m", "e", "r">>,
           <<"s", "o", "f", "t", "w", "a", "r", "e", " ", "d", "e", "v", "e", "l", "o", "p", "e", "r">>,
           <<"e", "n", "g", "i", "n", "e", "e", "r">>>>>>,
       <<<<"d", "e", "v", "e", "l", "o", "p", "e", "r">>,
         <<<<"d", "e", "v", "e", "l", "o", "p", "e", "r">>,
           <<"s", "o", "f", "t", "w", "a", "r", "e", " ", "e", "n", "g", "i", "n", "e", "e", "r">>,
           <<"p", "r", "o", "g", "r", "a", "m", "m", "e", "r">>,
           <<"s", "o", "f", "t", "w", "a", "r", "e", " ", "d", "e", "v", "e", "l", "o", "p", "e", "r">>,
           <<"e", "n", "g", "i", "n", "e", "e", "r">>>>>>,
       <<<<"p", "r", "o", "g", "r", "a", "m", "m", "e", "r">>,
         <<<<"p", "r", "o", "g", "r", "a", "m", "m", "e", "r">>,
           <<"d", "e", "v", "e", "l", "o", "p", "e", "r">>,
           <<"s", "o", "f", "t", "w", "a", "r", "e", " ", "e", "n", "g", "i", "n", "e", "e", "r">>,
           <<"s", "o", "f", "t", "w", "a", "r", "e", " ", "d", "e", "v", "e", "l", "o", "p", "e", "r">>>>>>,
       <<<<"e", "n", "g", "i", "n", "e", "e", "r">>,
         <<<<"e", "n", "g", "i", "n", "e", "e", "r">>,
           <<"s", "o", "f", "t", "w", "a", "r", "e", " ", "e", "n", "g", "i", "n", "e", "e", "r">>,
           <<"d", "e", "v", "e", "l", "o", "p", "e", "r">>,
           <<"p", "r", "o", "g", "r", "a", "m", "m", "e", "r">>>>>>,
       <<<<"d", "a", "t", "a", " ", "s", "c", "i", "e", "n", "t", "i", "s", "t">>,
         <<<<"d", "a", "t", "a", " ", "s", "c", "i", "e", "n", "t", "i", "s", "t">>,
           <<"d", "a", "t", "a", " ", "a", "n", "a", "l", "y", "s", "t">>,
           <<"a", "n", "a", "l", "y", "t", "i", "c", "s">>,
           <<"d", "a", "t", "a", " ", "e", "n", "g", "i", "n", "e", "e", "r">>>>>>,
       <<<<"d", "a", "t", "a", " ", "a", "n", "a", "l", "y", "s", "t">>,
         <<<<"d", "a", "t", "a", " ", "a", "n", "a", "l", "y", "s", "t">>,
           <<"d", "a", "t", "a", " ", "s", "c", "i", "e", "n", "t", "i", "s", "t">>,
           <<"a", "n", "a", "l", "y", "t", "i", "c", "s">>,
           <<"b", "u", "s", "i", "n", "e", "s", "s", " ", "a", "n", "a", "l", "y", "s", "t">>>>>>,
       <<<<"d", "a", "t", "a", " ", "e", "n", "g", "i", "n", "e", "e", "r">>,
         <<<<"d", "a", "t", "a", " ", "e", "n", "g", "i", "n", "e", "e", "r">>,
           <<"d", "a", "t", "a", " ", "s", "c", "i", "e", "n", "t", "i", "s", "t">>,
           <<"a", "n", "a", "l", "y", "t", "i", "c", "s", " ", "e", "n", "g", "i", "n", "e", "e", "r">>>>>>,
       <<<<"d", "e", "s", "i", "g", "n", "e", "r">>,
         <<<<"d", "e", "s", "i", "g", "n", "e", "r">>,
           <<"u", "x", " ", "d", "e", "s", "i", "g", "n", "e", "r">>,
           <<"u", "i", " ", "d", "e", "s", "i", "g", "n", "e", "r">>,
           <<"p", "r", "o", "d", "u", "c", "t", " ", "d", "e", "s", "i", "g", "n", "e", "r">>,
           <<"g", "r", "a", "p", "h", "i", "c", " ", "d", "e", "s", "i", "g", "n", "e", "r">>>>>>,
       <<<<"u", "x", " ", "d", "e", "s", "i", "g", "n", "e", "r">>,
         <<<<"u", "x", " ", "d", "e", "s", "i", "g", "n", "e", "r">>,
           <<"u", "i", " ", "d", "e", "s", "i", "g", "n", "e", "r">>,
           <<"p", "r", "o", "d", "u", "c", "t", " ", "d", "e", "s", "i", "g", "n", "e", "r">>,
           <<"d", "e", "s", "i", "g", "n", "e", "r">>>>>>,
       <<<<"u", "i", " ", "d", "e", "s", "i", "g", "n", "e", "r">>,
         <<<<"u", "i", " ", "d", "e", "s", "i", "g", "n", "e", "r">>,
           <<"u", "x", " ", "d", "e", "s", "i", "g", "n", "e", "r">>,
           <<"p", "r", "o", "d", "u", "c", "t", " ", "d", "e", "s", "i", "g", "n", "e", "r">>,
           <<"d", "e", "s", "i", "g", "n", "e", "r">>>>>>,
       <<<<"m", "a", "r", "k", "e", "t", "i", "n", "g", " ", "m", "a", "n", "a", "g", "e", "r">>,
         <<<<"m", "a", "r", "k", "e", "t", "i", "n", "g", " ", "m", "a", "n", "a", "g", "e", "r">>,
           <<"m", "a", "r", "k", "e", "t", "i", "n", "g">>,
           <<"d", "i", "g", "i", "t", "a", "l", " ", "m", "a", "r", "k", "e", "t", "i", "n", "g">>,
           <<"m", "a", "r", "k", "e", "t", "i", "n", "g", " ", "s", "p", "e", "c", "i", "a", "l", "i", "s", "t">>>>>>,
       <<<<"m", "a", "r", "k", "e", "t", "i", "n", "g">>,
         <<<<"m", "a", "r", "k", "e", "t", "i", "n", "g">>,
           <<"m", "a", "r", "k", "e", "t", "i", "n", "g", " ", "m", "a", "n", "a", "g", "e", "r">>,
           <<"d", "i", "g", "i", "t", "a", "l", " ", "m", "a", "r", "k", "e", "t", "i", "n", "g">>,
           <<"m", "a", "r", "k", "e", "t", "i", "n", "g", " ", "s", "p", "e", "c", "i", "a", "l", "i", "s", "t">>>>>>,
       <<<<"s", "a", "l", "e", "s">>,
         <<<<"s", "a", "l", "e", "s">>,
           <<"a", "c", "c", "o", "u", "n", "t", " ", "m", "a", "n", "a", "g", "e", "r">>,
           <<"s", "a", "l", "e", "s", " ", "m", "a", "n", "a", "g", "e", "r">>,
           <<"s", "a", "l", "e", "s", " ", "r", "e", "p", "r", "e", "s", "e", "n", "t", "a", "t", "i", "v", "e">>>>>>,
       <<<<"a", "c", "c", "o", "u", "n", "t", " ", "m", "a", "n", "a", "g", "e", "r">>,
         <<<<"a", "c", "c", "o", "u", "n", "t", " ", "m", "a", "n", "a", "g", "e", "r">>,
           <<"s", "a", "l", "e", "s">>,
           <<"s", "a", "l", "e", "s", " ", "m", "a", "n", "a", "g", "e", "r">>,
           <<"c", "u", "s", "t", "o", "m", "e", "r", " ", "s", "u", "c", "c", "e", "s", "s">>>>>>,
       <<<<"o", "p", "e", "r", "a", "t", "i", "o", "n", "s">>,
         <<<<"o", "p", "e", "r", "a", "t", "i", "o", "n", "s">>,
           <<"o", "p", "s">>,
           <<"o", "p", "e", "r", "a", "t", "i", "o", "n", "s", " ", "m", "a", "n", "a", "g", "e", "r">>,
           <<"b", "u", "s", "i", "n", "e", "s", "s", " ", "o", "p", "e", "r", "a", "t", "i", "o", "n", "s">>>>>>,
       <<<<"o", "p", "s">>,
         <<<<"o", "p", "s">>,
           <<"o", "p", "e", "r", "a", "t", "i", "o", "n", "s">>,
           <<"o", "p", "e", "r", "a", "t", "i", "o", "n", "s", " ", "m", "a", "n", "a", "g", "e", "r">>,
           <<"b", "u", "s", "i", "n", "e", "s", "s", " ", "o", "p", "e", "r", "a", "t", "i", "o", "n", "s">>>>>>,
       <<<<"a", "n", "a", "l", "y", "s", "t">>,
         <<<<"a", "n", "a", "l", "y", "s", "t">>,
           <<"f", "i", "n", "a", "n", "c", "i", "a", "l", " ", "a", "n", "a", "l", "y", "s", "t">>,
           <<"b", "u", "s", "i", "n", "e", "s", "s", " ", "a", "n", "a", "l", "y", "s", "t">>,
           <<"d", "a", "t", "a", " ", "a", "n", "a", "l", "y", "s", "t">>>>>>,
       <<<<"f", "i", "n", "a", "n", "c", "i", "a", "l", " ", "a", "n", "a", "l", "y", "s", "t">>,
         <<<<"f", "i", "n", "a", "n", "c", "i", "a", "l", " ", "a", "n", "a", "l", "y", "s", "t">>,
           <<"a", "n", "a", "l", "y", "s", "t">>,
           <<"f", "i", "n", "a", "n", "c", "e">>,
           <<"b", "u", "s", "i", "n", "e", "s", "s", " ", "a", "n", "a", "l", "y", "s", "t">>>>>>,
       <<<<"h", "r">>,
         <<<<"h", "r">>,
           <<"h", "u", "m", "a", "n", " ", "r", "e", "s", "o", "u", "r", "c", "e", "s">>,
           <<"r", "e", "c", "r", "u", "i", "t", "e", "r">>,
           <<"t", "a", "l", "e", "n", "t", " ", "a", "c", "q", "u", "i", "s", "i", "t", "i", "o", "n">>>>>>,
       <<<<"r", "e", "c", "r", "u", "i", "t", "e", "r">>,
         <<<<"r", "e", "c", "r", "u", "i", "t", "e", "r">>,
           <<"h", "r">>,
           <<"h", "u", "m", "a", "n", " ", "r", "e", "s", "o", "u", "r", "c", "e", "s">>,
           <<"t", "a", "l", "e", "n", "t", " ", "a", "c", "q", "u", "i", "s", "i", "t", "i", "o", "n">>>>>>,
       <<<<"c", "u", "s", "t", "o", "m", "e", "r", " ", "s", "u", "c", "c", "e", "s", "s">>,
         <<<<"c", "u", "s", "t", "o", "m", "e", "r", " ", "s", "u", "c", "c", "e", "s", "s">>,
           <<"a", "c", "c", "o", "u", "n", "t", " ", "m", "a", "n", "a", "g", "e", "r">>,
           <<"c", "u", "s", "t", "o", "m", "e", "r", " ", "s", "u", "p", "p", "o", "r", "t">>>>>>,
       <<<<"c", "u", "s", "t", "o", "m", "e", "r", " ", "s", "u", "p", "p", "o", "r", "t">>,
         <<<<"c", "u", "s", "t", "o", "m", "e", "r", " ", "s", "u", "p", "p", "o", "r", "t">>,
           <<"c", "u", "s", "t", "o", "m", "e", "r", " ", "s", "u", "c", "c", "e", "s", "s">>,
           <<"s", "u", "p", "p", "o", "r", "t">>>>>>
    >>

\* the titles of the table to search
\* "Senior Software Engineer"
TitleSenior ==
    <<"S", "e", "n", "i", "o", "r", " ", "S", "o", "f", "t", "w", "a", "r", "e", " ", "E", "n", "g", "i", "n", "e", "e", "r">>
\* "Software Engineering Manager"
TitleManager ==
    <<"S", "o", "f", "t", "w", "a", "r", "e", " ", "E", "n", "g", "i", "n", "e", "e", "r", "i", "n", "g", " ", "M", "a", "n", "a", "g", "e", "r">>
\* "Baker"
TitleBaker ==
    <<"B", "a", "k", "e", "r">>
\* "Software Developer"
TitleDeveloper ==
    <<"S", "o", "f", "t", "w", "a", "r", "e", " ", "D", "e", "v", "e", "l", "o", "p", "e", "r">>
\* "Engineer, Software"
TitleReversed ==
    <<"E", "n", "g", "i", "n", "e", "e", "r", ",", " ", "S", "o", "f", "t", "w", "a", "r", "e">>
\* "Lead Engineer"
TitleLead ==
    <<"L", "e", "a", "d", " ", "E", "n", "g", "i", "n", "e", "e", "r">>
Titles ==
    {TitleSenior, TitleManager, TitleBaker, TitleDeveloper, TitleReversed, TitleLead}

\* what the user types in the search box
\* "software engineer"
QuerySoftwareEngineer ==
    <<"s", "o", "f", "t", "w", "a", "r", "e", " ", "e", "n", "g", "i", "n", "e", "e", "r">>
\* "Software  Engineer "
QuerySpaced ==
    <<"S", "o", "f", "t", "w", "a", "r", "e", " ", " ", "E", "n", "g", "i", "n", "e", "e", "r", " ">>
\* "developer"
QueryDeveloper ==
    <<"d", "e", "v", "e", "l", "o", "p", "e", "r">>
Queries == {QuerySoftwareEngineer, QuerySpaced, QueryDeveloper, <<>>, SP}

\* a row of the table: its title, and index for its other fields
SearchRow(t, k) == [title |-> t, index |-> k]

InitSearch ==
    /\ \E n \in 0..MaxTitles : \E ts \in [1..n -> Titles] :
          jobs_df = [k \in 1..n |-> SearchRow(ts[k], k)]
    /\ search_query \in Queries
    /\ search_pc = "start"
    /\ filtered_jobs = <<>>
    /\ user_target = <<>>
    /\ min_score = 0
    /\ ai_pc = "off"
    /\ idx = 1
    /\ scored_jobs = <<>>
    /\ log_lines = <<>>
    /\ ai_result = <<>>
    /\ replies = <<>>
    /\ companies = <<"Acme">>
    /\ location \in Locations
    /\ hours_old = None
    /\ results_wanted = SaturationThreshold
    /\ pc = "off"
    /\ InitCollector
    /\ NoDedupe
    /\ NoMain

\* a filter that keeps a row only when its title is the query
MatchesWholeTitle(title, query, search_words) == lower(title) = query

\* the three branches of the row loop: the exact phrase, all words of a
\* multi-word query, the word of a single-word query
Matches(title, query, search_words) ==
    LET job_title == lower(title)
    IN  \/ Contains(query, job_title)
        \/ /\ Len(search_words) > 1
           /\ \A x \in 1..Len(search_words) : Contains(search_words[x], job_title)
        \/ /\ Len(search_words) = 1
           /\ Contains(search_words[1], job_title)

\* search_query.lower().strip()
Normalized(query) == strip(lower(query))

\* the early return: jobs_df itself
SearchReturnsInput ==
    /\ search_pc = "start"
    /\ Blank(search_query)
    /\ search_pc' = "returned input"
    /\ UNCHANGED <<search_query, filtered_jobs, request, collector, dedupe, ai, page>>

\* the row loop and the return: the matching rows in the order of the table
SearchFilters ==
    /\ search_pc = "start"
    /\ ~Blank(search_query)
    /\ filtered_jobs' =
          SelectIdx(jobs_df,
                    {k \in 1..Len(jobs_df) :
                       Matches(jobs_df[k].title, Normalized(search_query),
                               split(Normalized(search_query)))}, 1)
    /\ search_pc' = "returned"
    /\ UNCHANGED <<search_query, request, collector, dedupe, ai, page>>

NextSearch ==
    \/ SearchReturnsInput
    \/ SearchFilters

SpecSearch == InitSearch /\ [][NextSearch]_vars

(***************************************************************************)
(* main: the Start Search button.                                          *)
(***************************************************************************)
RECURSIVE split_commas(_)
\* companies_input.split(','): the pieces between commas, empty ones too
split_commas(s) ==
    LET commas == {p \in 1..Len(s) : s[p] = ","}
    IN  IF commas = {} THEN <<s>>
        ELSE <<SubSeq(s, 1, Least(commas) - 1)>>
                \o split_commas(SubSeq(s, Least(commas) + 1, Len(s)))

RECURSIVE StripNonBlank(_)
\* [company.strip() for company in pieces if company.strip()]
StripNonBlank(pieces) ==
    IF pieces = <<>> THEN <<>>
    ELSE IF strip(Head(pieces)) = <<>> THEN StripNonBlank(Tail(pieces))
    ELSE <<strip(Head(pieces))>> \o StripNonBlank(Tail(pieces))

\* the companies list of main
ParseCompanies(text) == StripNonBlank(split_commas(text))

\* what the user types in the Companies box
InputNothing == <<>>
InputBlank == SP
\* ", ,"
InputCommas == <<",", " ", ",">>
\* "Acme"
InputAcme ==
    <<"A", "c", "m", "e">>
\* " Acme ,, Globex"
InputTwo ==
    <<" ", "A", "c", "m", "e", " ", ",", ",", " ", "G", "l", "o", "b", "e", "x">>
CompanyInputs == {InputNothing, InputBlank, InputCommas, InputAcme, InputTwo}

\* "Seattle, WA"
LocationSeattle ==
    <<"S", "e", "a", "t", "t", "l", "e", ",", " ", "W", "A">>
\* what the user types in the Location box
LocationInputs == {<<>>, SP, LocationSeattle}

\* the values of the Hours old box
HoursInputs == {0, 72}

NeedCompany == "Please enter at least one company"
NeedLocation == "Please enter a location"
NoJobsFound == "No jobs found for any company"
SearchComplete == "Search Complete"

InitMain ==
    /\ companies_input \in CompanyInputs
    /\ location \in LocationInputs
    /\ \E h \in HoursInputs : hours_old = IF h = 0 THEN None ELSE h
    /\ results_wanted = 5000
    /\ main_pc = "clicked"
    /\ message = ""
    /\ companies = <<>>
    /\ pc = "off"
    /\ InitCollector
    /\ NoDedupe
    /\ NoAI
    /\ NoSearch
    /\ NoTable

\* if not companies_input.strip(): st.error(...); return
MainRejectsCompanies ==
    /\ main_pc = "clicked"
    /\ strip(companies_input) = <<>>
    /\ message' = NeedCompany
    /\ main_pc' = "returned"
    /\ UNCHANGED <<companies_input, table, request, collector, dedupe, ai,
                   lexical>>

\* if not location.strip(): st.error(...); return
MainRejectsLocation ==
    /\ main_pc = "clicked"
    /\ strip(companies_input) # <<>>
    /\ strip(location) = <<>>
    /\ message' = NeedLocation
    /\ main_pc' = "returned"
    /\ UNCHANGED <<companies_input, table, request, collector, dedupe, ai,
                   lexical>>

\* the call of scrape_multiple_companies with the parsed companies; with no
\* company the employer loop has no iteration and the function returns
\* pd.DataFrame()
MainStartsSearch ==
    /\ main_pc = "clicked"
    /\ strip(companies_input) # <<>>
    /\ strip(location) # <<>>
    /\ companies' = ParseCompanies(companies_input)
    /\ main_pc' = "scraping"
    /\ pc' = IF ParseCompanies(companies_input) = <<>> THEN "done" ELSE "first"
    /\ UNCHANGED <<companies_input, message, table, location, hours_old,
                   results_wanted,
                   i, w, initial_jobs, company_jobs, all_jobs, combined_jobs,
                   duplicates_removed, report, detailed_progress, queries,
                   fetched, failures, dedupe, ai, lexical>>

\* after scrape_multiple_companies returned: if len(jobs) == 0:
\* st.error("No jobs found for any company"); return; otherwise the summary
MainReports ==
    /\ main_pc = "scraping"
    /\ pc = "done"
    /\ message' = IF len(combined_jobs) = 0 THEN NoJobsFound ELSE SearchComplete
    /\ main_pc' = "returned"
    /\ UNCHANGED <<companies_input, table, request, collector, dedupe, ai,
                   lexical>>

NextMain ==
    \/ MainRejectsCompanies
    \/ MainRejectsLocation
    \/ MainStartsSearch
    \/ FirstQueryRaises
    \/ FirstQueryReturnsNoColumns
    \/ FirstQueryReturns
    \/ FirstQuerySaturated
    \/ WindowQueryRaises
    \/ WindowQueryReturns
    \/ MainReports

SpecMain == InitMain /\ [][NextMain]_vars

(***************************************************************************)
(* display_job_data_table: the job table across script reruns.             *)
(*                                                                         *)
(* A search result is a table of Size(d) rows; a frame of the table is     *)
(* [data, rows, scored]: the search result it comes from, the set of its   *)
(* row indices, and, for a frame that ai_filter_jobs returned, the         *)
(* arguments of that call (<<>> otherwise).  A session key that may be     *)
(* missing holds <<>> when it is missing and <<value>> when it is set.     *)
(* A widget keeps its value across reruns while every run renders it; a    *)
(* run that does not render it drops the value.                            *)
(***************************************************************************)
\* def display_job_data_table(jobs_df, jobs_per_page=15)
jobs_per_page == 15

\* the rows of search result d
Size(d) == 16 * d
SearchResults == 1..MaxResults

\* the titles of a search result, and the one of row k of search result d
TableTitles == <<TitleSenior, TitleDeveloper, TitleBaker>>
TitleIndex(d, k) == ((k + d) % 3) + 1
TitleOf(d, k) == TableTitles[TitleIndex(d, k)]
CompanyOf(d, k) == IF k % 4 = 0 THEN "Acme" ELSE "Globex"

\* a frame with the rows rs of search result d
Frame(d, rs) == [data |-> d, rows |-> rs, scored |-> <<>>]

\* jobs_df: the whole search result
JobsData(d) == Frame(d, 1..Size(d))

\* "zz"
QueryNoMatch == <<"z", "z">>
\* what the user types in the Search Job Titles box
TableQueries == {<<>>, QueryDeveloper, QueryNoMatch}

\* "ml "
TargetML == <<"m", "l", " ">>
\* "qa"
TargetQA == <<"q", "a">>
\* what the user types in the AI Job Filter box
TargetInputs == {<<>>, TargetML, TargetQA}

\* the positions of the Minimum Score slider; value=50 is its default
SliderDefault == 50
SliderValues == {SliderDefault, 80}

\* the options of the Company selectbox
CompanyOptions == {"All", "Globex"}

\* the column headers the model clicks
SortColumns == {"date_posted", "title"}

\* for every query of the box, the titles that smart_job_search keeps
MatchingTitles ==
    [query \in TableQueries |->
        {t \in 1..Len(TableTitles) :
            Matches(TableTitles[t], Normalized(query), split(Normalized(query)))}]

\* whether the text of a box is empty or blank: not text.strip()
BlankQuery == [query \in TableQueries |-> strip(query) = <<>>]
BlankTarget == [target \in TargetInputs |-> strip(target) = <<>>]
\* text.strip() of the AI Job Filter box
StrippedTarget == [target \in TargetInputs |-> strip(target)]

\* smart_job_search(filtered_df, search_query)
smart_job_search(df, query) ==
    IF BlankQuery[query] THEN df
    ELSE [df EXCEPT !.rows =
            {k \in @ : TitleIndex(df.data, k) \in MatchingTitles[query]}]

\* the frames ai_filter_jobs(df, target, score) may return: the model
\* decides which records reach the score
ai_filter_jobs(df, target, score) ==
    { [df EXCEPT !.rows = rs,
                 !.scored = <<[jobs_df |-> df, user_target |-> target,
                               min_score |-> score]>>] :
        rs \in {df.rows, {k \in df.rows : k % 2 = 0}, {}} }

\* ai_cache_key = f"ai_filtered_jobs_{hash(ai_target)}"
CacheKey(target) == <<"ai_filtered_jobs_", target>>

\* filtered_df[filtered_df['company'] == selected_company]
company_filter(df, selected_company) ==
    IF selected_company = "All" THEN df
    ELSE [df EXCEPT !.rows = {k \in @ : CompanyOf(df.data, k) = selected_company}]

\* (total_filtered_jobs + jobs_per_page - 1) // jobs_per_page, 1 for no row
TotalPages(total_filtered_jobs) ==
    IF total_filtered_jobs > 0
    THEN (total_filtered_jobs + jobs_per_page - 1) \div jobs_per_page
    ELSE 1

\* min(a, b) and max(a, b)
min(a, b) == IF a < b THEN a ELSE b
max(a, b) == IF a > b THEN a ELSE b

\* what a script run put on the page: how it ended, whether it called
\* ai_filter_jobs, the filtered frame, and the page it sliced
Shown(outcome, invoked, df, current_page, start_idx, end_idx) ==
    [outcome |-> outcome, invoked |-> invoked, filtered |-> df,
     total_pages |-> TotalPages(Cardinality(df.rows)), current_page |-> current_page,
     start_idx |-> start_idx, end_idx |-> end_idx]

\* a run that returned before the pagination
Stopped(outcome, invoked) == Shown(outcome, invoked, Frame(0, {}), 1, 0, 0)

InitTable ==
    /\ session_state =
          [jobs_data |-> 0, current_page |-> 1,
           sort_column |-> "date_posted", sort_ascending |-> FALSE,
           ai_filter_applied |-> FALSE, ai_target |-> <<>>,
           ai_filtered_jobs |-> <<>>, ai_cache_key |-> <<>>,
           job_title_search |-> <<>>, ai_target_input |-> <<>>,
           min_score |-> SliderDefault, company_filter |-> "All"]
    /\ rendered = Stopped("welcome", FALSE)
    /\ companies_input = <<>> /\ main_pc = "off" /\ message = ""
    /\ companies = <<"Acme">>
    /\ location \in Locations
    /\ hours_old = None
    /\ results_wanted = SaturationThreshold
    /\ pc = "off"
    /\ InitCollector
    /\ NoDedupe
    /\ NoAI
    /\ NoSearch

\* the slider is drawn only under a non-blank AI Job Filter box
SliderDrawn(s) == ~BlankTarget[s.ai_target_input]

\* the widgets of a run: a slider that is not drawn loses its position
Widgets(s) ==
    IF SliderDrawn(s) THEN s ELSE [s EXCEPT !.min_score = SliderDefault]

\* a page that never resets to 1
KeepPage(current_page, total_pages) == current_page

\* if st.session_state.current_page > total_pages: current_page = 1
ResetPage(current_page, total_pages) ==
    IF current_page > total_pages THEN 1 ELSE current_page

\* from the sort to the slice of the page
Paginate(s, df, invoked) ==
    LET total_filtered_jobs == Cardinality(df.rows)
        total_pages == TotalPages(total_filtered_jobs)
        current_page == ResetPage(s.current_page, total_pages)
        start_idx == (current_page - 1) * jobs_per_page
        end_idx == min(start_idx + jobs_per_page, total_filtered_jobs)
    IN  /\ session_state' = [s EXCEPT !.current_page = current_page]
        /\ rendered' =
              IF total_filtered_jobs = 0
              THEN Shown("no filter match", invoked, df, current_page, 0, 0)
              ELSE Shown("table", invoked, df, current_page, start_idx, end_idx)

\* a cache that is dropped only when the filter is not active
PopWhenCleared(s, ai_active, ai_cache_key) ==
    IF ~ai_active
    THEN [s EXCEPT !.ai_filtered_jobs = <<>>, !.ai_cache_key = <<>>]
    ELSE s

\* Reset AI cache if filter is cleared or target changes
PopStale(s, ai_active, ai_cache_key) ==
    IF ~ai_active
    THEN [s EXCEPT !.ai_filtered_jobs = <<>>, !.ai_cache_key = <<>>]
    ELSE IF s.ai_cache_key # <<ai_cache_key>>
    THEN [s EXCEPT !.ai_filtered_jobs = <<>>]
    ELSE s

\* one run of display_job_data_table(st.session_state.jobs_data) from the
\* session state s0
Render(s0) ==
    LET s == Widgets(s0)
        title_search == s.job_title_search
        searched == smart_job_search(JobsData(s.jobs_data), title_search)
        ai_active == s.ai_filter_applied /\ s.ai_target # <<>>
        ai_target == s.ai_target
        ai_cache_key == CacheKey(ai_target)
        popped == PopStale(s, ai_active, ai_cache_key)
    IN  IF ~BlankQuery[title_search] /\ searched.rows = {}
        THEN /\ session_state' = s
             /\ rendered' = Stopped("no title match", FALSE)
        ELSE IF ~ai_active
        THEN Paginate(popped, company_filter(searched, s.company_filter), FALSE)
        ELSE IF popped.ai_filtered_jobs # <<>>
        THEN Paginate(popped,
                      company_filter(popped.ai_filtered_jobs[1], s.company_filter),
                      FALSE)
        ELSE IF ~SliderDrawn(s)
        THEN \* min_score is not bound: UnboundLocalError
             /\ session_state' = popped
             /\ rendered' = Stopped("exception", FALSE)
        ELSE \E filtered_df \in ai_filter_jobs(searched, ai_target, s.min_score) :
                LET stored == [popped EXCEPT !.ai_filtered_jobs = <<filtered_df>>,
                                             !.ai_cache_key = <<ai_cache_key>>]
                IN  IF filtered_df.rows = {}
                    THEN /\ session_state' = stored
                         /\ rendered' = Stopped("no AI match", TRUE)
                    ELSE Paginate(stored,
                                  company_filter(filtered_df, s.company_filter),
                                  TRUE)

\* the rest of the module's state, which the job table leaves alone
OffTable ==
    UNCHANGED <<companies_input, main_pc, message, request, collector, dedupe,
                ai, lexical>>

\* the job table is on the page
TableOn == session_state.jobs_data # 0
\* the last run drew the pagination controls
Paginated == TableOn /\ rendered.outcome \in {"table", "no filter match"}

\* main, Start Search with a result: page 1, the title search box emptied,
\* the result stored, and the table drawn
NewSearch ==
    /\ \E d \in SearchResults :
          Render([session_state EXCEPT !.current_page = 1,
                                       !.job_title_search = <<>>,
                                       !.jobs_data = d])
    /\ OffTable

\* main, Start Search that ends in st.error: page 1, the title search box
\* emptied, and no table drawn in the run
NewSearchFails ==
    /\ session_state' = [session_state EXCEPT !.current_page = 1,
                                              !.job_title_search = <<>>,
                                              !.ai_target_input = <<>>,
                                              !.min_score = SliderDefault,
                                              !.company_filter = "All"]
    /\ rendered' = Stopped("search error", FALSE)
    /\ OffTable

\* a rerun that changes no widget of the table
Rerun ==
    /\ TableOn
    /\ Render(session_state)
    /\ OffTable

\* the user edits the Search Job Titles box
TypeSearchQuery ==
    /\ TableOn
    /\ \E q \in TableQueries \ {session_state.job_title_search} :
          Render([session_state EXCEPT !.job_title_search = q])
    /\ OffTable

\* the user edits the AI Job Filter box
TypeAITarget ==
    /\ TableOn
    /\ \E t \in TargetInputs \ {session_state.ai_target_input} :
          Render([session_state EXCEPT !.ai_target_input = t])
    /\ OffTable

\* Apply AI Filter
ApplyAIFilter ==
    /\ TableOn
    /\ SliderDrawn(session_state)
    /\ Render([session_state EXCEPT
                  !.ai_filter_applied = TRUE,
                  !.ai_target = StrippedTarget[session_state.ai_target_input]])
    /\ OffTable

\* Clear AI Filter
ClearAIFilter ==
    /\ TableOn
    /\ SliderDrawn(session_state)
    /\ Render([session_state EXCEPT !.ai_filter_applied = FALSE,
                                    !.ai_target = <<>>])
    /\ OffTable

\* the user moves the Minimum Score slider
MoveSlider ==
    /\ TableOn
    /\ SliderDrawn(session_state)
    /\ \E m \in SliderValues \ {session_state.min_score} :
          Render([session_state EXCEPT !.min_score = m])
    /\ OffTable

\* the user picks another option of the Company selectbox
SelectCompany ==
    /\ TableOn
    /\ \E c \in CompanyOptions \ {session_state.company_filter} :
          Render([session_state EXCEPT !.company_filter = c])
    /\ OffTable

\* a click on a column header
SortBy ==
    /\ TableOn
    /\ rendered.outcome = "table"
    /\ \E sort_col \in SortColumns :
          IF session_state.sort_column = sort_col
          THEN Render([session_state EXCEPT !.sort_ascending = ~@])
          ELSE Render([session_state EXCEPT !.sort_column = sort_col,
                                            !.sort_ascending = TRUE])
    /\ OffTable

\* Previous, at the top or at the bottom of the table
PreviousPage ==
    /\ Paginated
    /\ ~(session_state.current_page <= 1)
    /\ Render([session_state EXCEPT !.current_page = max(1, @ - 1)])
    /\ OffTable

\* Next, at the top or at the bottom of the table
NextPage ==
    /\ Paginated
    /\ ~(session_state.current_page >= rendered.total_pages)
    /\ Render([session_state EXCEPT
                  !.current_page = min(rendered.total_pages, @ + 1)])
    /\ OffTable

\* Go to: a number between min_value=1 and max_value=total_pages
GoToPage ==
    /\ Paginated
    /\ \E jump_page \in 1..rendered.total_pages :
          /\ jump_page # session_state.current_page
          /\ Render([session_state EXCEPT !.current_page = jump_page])
    /\ OffTable

NextTable ==
    \/ NewSearch
    \/ NewSearchFails
    \/ Rerun
    \/ TypeSearchQuery
    \/ TypeAITarget
    \/ ApplyAIFilter
    \/ ClearAIFilter
    \/ MoveSlider
    \/ SelectCompany
    \/ SortBy
    \/ PreviousPage
    \/ NextPage
    \/ GoToPage

SpecTable == InitTable /\ [][NextTable]_vars

(***************************************************************************)
(* What the claims speak of.                                               *)
(***************************************************************************)
\* the identity keys of a frame's tracked rows
Keys(df) == {KeyOf(df.rows[k]) : k \in 1..Len(df.rows)}
Urls(df) == {df.rows[k].job_url : k \in 1..Len(df.rows)}

\* the employer whose line is the last of the report has just been finished,
\* and queries holds its upstream calls
LastDone == pc \in {"first", "done"} /\ report # <<>>
LastLine == report[Len(report)]
LastEmployer == companies[Len(report)]
\* the last finished employer went through the window loop
LastWindowed == LastDone /\ LastLine.kind \in {"time-based search", "fallback"}
LastBatch == all_jobs[Len(all_jobs)]

\* the employers (indices of the request) that contributed a batch, and the
\* employer of the e-th batch of all_jobs
Contributors == {k \in 1..Len(report) : report[k].kind # "error"}
EmployerOf(e) ==
    CHOOSE k \in Contributors : Cardinality({j \in Contributors : j <= k}) = e

\* the rows of the merged result that carry a key, or a URL
Copies(key) ==
    {x \in 1..Len(combined_jobs.rows) : KeyOf(combined_jobs.rows[x]) = key}
CopiesOfUrl(u) ==
    {x \in 1..Len(combined_jobs.rows) : combined_jobs.rows[x].job_url = u}

\* C1: the output of drop_duplicates has no two rows with the same
\* (job_url, title) key, and of every group of input rows that share a key
\* exactly the row with the lowest input index is retained.
C1_DedupeKeepsFirst ==
    pc = "deduped" =>
      /\ \A x, y \in 1..Len(deduped) :
            x # y => KeyOf(deduped[x]) # KeyOf(deduped[y])
      /\ \A k \in 1..Len(records) :
            (\A j \in 1..(k - 1) : KeyOf(records[j]) # KeyOf(records[k]))
               => \E x \in 1..Len(deduped) : deduped[x] = records[k]
      /\ \A x \in 1..Len(deduped) :
            \E k \in 1..Len(records) :
               /\ deduped[x] = records[k]
               /\ \A j \in 1..(k - 1) : KeyOf(records[j]) # KeyOf(records[k])

\* C1 witness: an input with two different rows of one key has been deduplicated
C1_Witness ==
    /\ pc = "deduped"
    /\ Len(deduped) < Len(records)
    /\ \E j, k \in 1..Len(records) :
          j < k /\ KeyOf(records[j]) = KeyOf(records[k]) /\ records[j] # records[k]

\* C2: every listing returned for one or more employers has exactly one copy
\* in the merged result, and the copy's search_company is the employer that
\* comes earliest in the request among the employers whose batch holds it.
C2_EarliestEmployerKept ==
    pc = "done" =>
      \A e \in 1..Len(all_jobs) : \A key \in Keys(all_jobs[e]) :
         LET holders == {h \in 1..Len(all_jobs) : key \in Keys(all_jobs[h])}
             first == CHOOSE h \in holders : \A g \in holders : h <= g
         IN  /\ Cardinality(Copies(key)) = 1
             /\ \A x \in Copies(key) :
                   combined_jobs.rows[x].search_company = companies[EmployerOf(first)]

\* C2 witness: a listing was returned for Acme and then for Globex
C2_Witness ==
    /\ pc = "done"
    /\ \E e, g \in 1..Len(all_jobs) :
          /\ e < g
          /\ companies[EmployerOf(e)] # companies[EmployerOf(g)]
          /\ Keys(all_jobs[e]) \cap Keys(all_jobs[g]) # {}

\* C3 as claimed: windowed collection if and only if the first query's count
\* is >= 95% of cap, and a single query below that.
C3_Original ==
    /\ pc = "window" => len(queries[1].frame) * 100 >= 95 * results_wanted
    /\ (LastDone /\ LastLine.kind = "simple search") =>
          /\ len(queries[1].frame) * 100 < 95 * results_wanted
          /\ Len(queries) = 1

\* C3 amended: windowed collection if and only if the first query's count is
\* >= 950, whatever the cap; below 950 exactly one upstream query is issued
\* for the employer.
C3_SaturationAt950 ==
    /\ pc = "window" => len(queries[1].frame) >= SaturationThreshold
    /\ LastWindowed => len(queries[1].frame) >= SaturationThreshold
    /\ (LastDone /\ LastLine.kind = "simple search") =>
          /\ len(queries[1].frame) < SaturationThreshold
          /\ Len(queries) = 1
    /\ (LastDone /\ ~queries[1].raised /\ len(queries[1].frame) < SaturationThreshold) =>
          /\ LastLine.kind \in {"simple search", "error"}
          /\ Len(queries) = 1

\* C3 witness: a first query of exactly 950 rows under a cap of 5000 has sent
\* the employer to the window loop
C3_Witness ==
    /\ pc = "window"
    /\ len(queries[1].frame) = SaturationThreshold
    /\ results_wanted = 5000

\* C4: for a saturated employer the calls after the first are one per window
\* of the schedule, in schedule order, each with the employer, the location
\* and the cap of the request and the window's end bound as hours_old,
\* whatever the windows return.
C4_OneQueryPerWindow ==
    /\ pc = "window" =>
          /\ Len(queries) = w
          /\ \A k \in 1..(w - 1) :
                queries[k + 1].args =
                   [indeed_company_id |-> companies[i], location |-> location,
                    results_wanted |-> results_wanted,
                    hours_old |-> time_ranges[k].end_hours]
    /\ LastWindowed =>
          /\ Len(queries) = 1 + total_ranges
          /\ \A k \in 1..total_ranges :
                queries[k + 1].args =
                   [indeed_company_id |-> LastEmployer, location |-> location,
                    results_wanted |-> results_wanted,
                    hours_old |-> time_ranges[k].end_hours]

\* C4 witness: a window loop has ended in which one window raised, one
\* returned rows and one returned nothing
C4_Witness ==
    /\ LastWindowed
    /\ \E k \in 2..Len(queries) : queries[k].raised
    /\ \E k \in 2..Len(queries) : ~queries[k].raised /\ len(queries[k].frame) > 0
    /\ \E k \in 2..Len(queries) : ~queries[k].raised /\ len(queries[k].frame) = 0

\* C5: after the window loop every row returned by a window query that did
\* not raise has its key in the employer's batch, whichever other windows
\* raised, and the expander shows an error line for exactly the windows
\* that raised.
C5_WindowFailureIsolated ==
    LastWindowed =>
      /\ \A k \in 2..Len(queries) :
            ~queries[k].raised => Keys(queries[k].frame) \subseteq Keys(LastBatch)
      /\ Len(detailed_progress) = total_ranges
      /\ \A k \in 1..total_ranges :
            queries[k + 1].raised <=>
               detailed_progress[k] = Progress(time_ranges[k].range_name, "error", 0)

\* C5 witness: window 2 raised, windows 1 and 3 returned rows
C5_Witness ==
    /\ LastWindowed
    /\ queries[3].raised
    /\ ~queries[2].raised /\ len(queries[2].frame) > 0
    /\ ~queries[4].raised /\ len(queries[4].frame) > 0

\* C6: when every window query raised or returned nothing, the employer's
\* batch is the table of its first query with search_company set to the
\* employer, and the merged result holds its listings.
C6_FallbackToFirstQuery ==
    (LastWindowed /\ \A k \in 2..Len(queries) :
                        queries[k].raised \/ len(queries[k].frame) = 0) =>
      LET first == queries[1].frame
      IN  /\ len(LastBatch) = len(first)
          /\ Len(LastBatch.rows) = Len(first.rows)
          /\ \A k \in 1..Len(first.rows) :
                LastBatch.rows[k] = [first.rows[k] EXCEPT !.search_company = LastEmployer]
          /\ pc = "done" =>
                /\ Keys(first) \subseteq Keys(combined_jobs)
                /\ len(combined_jobs) >= first.bulk

\* C6 witness: a saturated employer with a tracked row in its first table,
\* a window that raised and no window with rows
C6_Witness ==
    /\ LastWindowed
    /\ pc = "done"
    /\ Len(queries[1].frame.rows) > 0
    /\ \E k \in 2..Len(queries) : queries[k].raised
    /\ \A k \in 2..Len(queries) : queries[k].raised \/ len(queries[k].frame) = 0

\* C7: a step in which an employer's first query raises leaves all_jobs as it
\* was, adds an error line for that employer and goes on to the next
\* employer; at the end every employer of the request has been queried and
\* reported, the batches are those of the employers that did not fail, each
\* tagged with its employer, and the merged result holds their listings.
C7_EmployerFailureIsolated ==
    /\ [][(pc = "first" /\ failures' = failures + 1) =>
            /\ all_jobs' = all_jobs
            /\ report' = Append(report, Line(companies[i], "error", 0))
            /\ IF i < Len(companies)
               THEN pc' = "first" /\ i' = i + 1
               ELSE pc' = "done"]_vars
    /\ [](pc = "done" =>
            /\ Len(report) = Len(companies)
            /\ \A k \in 1..Len(report) : report[k].company = companies[k]
            /\ Len(all_jobs) = Cardinality(Contributors)
            /\ \A e \in 1..Len(all_jobs) : \A k \in 1..Len(all_jobs[e].rows) :
                  all_jobs[e].rows[k].search_company = companies[EmployerOf(e)]
            /\ Keys(combined_jobs) = UNION {Keys(all_jobs[e]) : e \in 1..Len(all_jobs)}
            /\ combined_jobs.bulk = concat(all_jobs).bulk)

\* C7 witness: the first employer failed and a later one contributed rows
C7_Witness ==
    /\ pc = "done"
    /\ failures > 0
    /\ Len(report) >= 2
    /\ report[1].kind = "error"
    /\ report[2].kind # "error"
    /\ Len(combined_jobs.rows) > 0

\* C8 as claimed: employers [Acme, Globex], both first queries below cap, one
\* URL in both results: one record for that URL, attributed to Acme, and a
\* duplicate count of 1.
C8_Original ==
    (/\ pc = "done"
     /\ companies = <<"Acme", "Globex">>
     /\ report[1].kind = "simple search"
     /\ report[1].jobs < results_wanted
     /\ ~queries[1].raised
     /\ len(queries[1].frame) < results_wanted
     /\ Cardinality(Urls(all_jobs[1]) \cap Urls(queries[1].frame)) = 1) =>
       /\ \A u \in Urls(all_jobs[1]) \cap Urls(queries[1].frame) :
             /\ Cardinality(CopiesOfUrl(u)) = 1
             /\ \A x \in CopiesOfUrl(u) : combined_jobs.rows[x].search_company = "Acme"
       /\ duplicates_removed = 1

NoRepeatedKey(df) ==
    \A x, y \in 1..Len(df.rows) : x # y => KeyOf(df.rows[x]) # KeyOf(df.rows[y])

\* C8 amended: employers [Acme, Globex], both first queries below 950 rows,
\* neither result with a repeated (job_url, title) key, one key in both
\* results: one record with that key, attributed to Acme, and a duplicate
\* count of 1.
C8_OneOverlap ==
    (/\ pc = "done"
     /\ companies = <<"Acme", "Globex">>
     /\ report[1].kind = "simple search"
     /\ report[2].kind = "simple search"
     /\ NoRepeatedKey(all_jobs[1])
     /\ NoRepeatedKey(all_jobs[2])
     /\ Cardinality(Keys(all_jobs[1]) \cap Keys(all_jobs[2])) = 1) =>
       /\ \A key \in Keys(all_jobs[1]) \cap Keys(all_jobs[2]) :
             /\ Cardinality(Copies(key)) = 1
             /\ \A x \in Copies(key) : combined_jobs.rows[x].search_company = "Acme"
       /\ duplicates_removed = 1

\* C8 witness: the scenario has run, with a second listing only Acme returned
C8_Witness ==
    /\ pc = "done"
    /\ companies = <<"Acme", "Globex">>
    /\ report[1].kind = "simple search"
    /\ report[2].kind = "simple search"
    /\ NoRepeatedKey(all_jobs[1])
    /\ NoRepeatedKey(all_jobs[2])
    /\ Cardinality(Keys(all_jobs[1]) \cap Keys(all_jobs[2])) = 1
    /\ Len(all_jobs[1].rows) + Len(all_jobs[2].rows) = 2

(***************************************************************************)
(* What the claims about ai_filter_jobs speak of.                          *)
(***************************************************************************)
\* the reply parses into all three fields
Structured(text) ==
    /\ score_match(strip(text)).found
    /\ confidence_match(strip(text)).found
    /\ reasoning_match(strip(text)).found
ParsedScore(text) == int(score_match(strip(text)).group)
ParsedConfidence(text) == confidence_match(strip(text)).group

\* the entries of scored_jobs made for the k-th record of the input
EntriesOf(k) == {e \in 1..Len(scored_jobs) : scored_jobs[e].job = jobs_df[k]}
\* the k-th record was answered, with all three fields or without
AnsweredStructured(k) == ~replies[k].raised /\ Structured(replies[k].content)
AnsweredOther(k) == ~replies[k].raised /\ ~Structured(replies[k].content)

\* C9: a record whose response parses into all three fields is kept if and
\* only if its parsed score >= min_score, with that score and confidence; a
\* record below min_score is left out, the function returns, and every
\* record of the input has been sent to the model by then.
C9_StructuredKeepRule ==
    /\ Len(replies) = idx - 1
    /\ \A k \in 1..Len(replies) :
          AnsweredStructured(k) =>
             /\ Cardinality(EntriesOf(k)) =
                   IF ParsedScore(replies[k].content) >= min_score THEN 1 ELSE 0
             /\ \A e \in EntriesOf(k) :
                   /\ scored_jobs[e].ai_score = ParsedScore(replies[k].content)
                   /\ scored_jobs[e].ai_confidence = ParsedConfidence(replies[k].content)
    /\ ai_pc \in {"start", "scoring", "returned", "returned input"}
    /\ ai_pc = "scoring" => idx <= Len(jobs_df)
    /\ ai_pc = "returned" =>
          /\ Len(replies) = Len(jobs_df)
          /\ Len(ai_result) = Len(scored_jobs)
          /\ \A e \in 1..Len(scored_jobs) :
                \E x \in 1..Len(ai_result) : ai_result[x] = scored_jobs[e]

\* C9 witness: with min_score 50 the first record was scored 45 and left
\* out, and the second record was scored after it and kept
C9_Witness ==
    /\ ai_pc = "returned"
    /\ min_score = 50
    /\ Len(jobs_df) = 2
    /\ replies[1] = Replied(ReplyLow)
    /\ EntriesOf(1) = {}
    /\ AnsweredStructured(2)
    /\ EntriesOf(2) # {}

\* \w of the re module
IsWord(c) ==
    \/ IsDigit(c)
    \/ c \in {"A", "B", "C", "D", "E", "F", "G", "H", "I", "J", "K", "L", "M",
              "N", "O", "P", "Q", "R", "S", "T", "U", "V", "W", "X", "Y", "Z",
              "a", "b", "c", "d", "e", "f", "g", "h", "i", "j", "k", "l", "m",
              "n", "o", "p", "q", "r", "s", "t", "u", "v", "w", "x", "y", "z",
              "_"}

\* the positions of s where a standalone number starts: a run of digits
\* with no letter or digit next to it
StandaloneStarts(s) ==
    {p \in 1..Len(s) :
       /\ IsDigit(s[p])
       /\ p = 1 \/ ~IsWord(s[p - 1])
       /\ DigitsEnd(s, p) = Len(s) + 1 \/ ~IsWord(s[DigitsEnd(s, p)])}
FirstStandalone(s) ==
    int(SubSeq(s, Least(StandaloneStarts(s)), DigitsEnd(s, Least(StandaloneStarts(s))) - 1))

\* C10 as claimed: a record whose response lacks a field gets the first
\* standalone number of the response as its score, with confidence LOW, and
\* is kept if and only if that number >= min_score.
C10_Original ==
    \A k \in 1..Len(replies) :
       (AnsweredOther(k) /\ StandaloneStarts(strip(replies[k].content)) # {}) =>
          /\ Cardinality(EntriesOf(k)) =
                IF FirstStandalone(strip(replies[k].content)) >= min_score THEN 1 ELSE 0
          /\ \A e \in EntriesOf(k) :
                /\ scored_jobs[e].ai_score = FirstStandalone(strip(replies[k].content))
                /\ scored_jobs[e].ai_confidence = LOW

\* the first run of digits of the response, capped at 100
FirstDigitsCapped(s) ==
    IF int(number_match(s).group) < 100 THEN int(number_match(s).group) ELSE 100

\* C10 amended: a record whose response lacks a field gets the first run of
\* digits of the response, capped at 100, as its score, with confidence LOW,
\* and is kept if and only if that score >= min_score; a response without
\* any digit leaves the record out.
C10_FallbackFirstDigits ==
    \A k \in 1..Len(replies) :
       AnsweredOther(k) =>
          IF number_match(strip(replies[k].content)).found
          THEN /\ Cardinality(EntriesOf(k)) =
                     IF FirstDigitsCapped(strip(replies[k].content)) >= min_score
                     THEN 1 ELSE 0
               /\ \A e \in EntriesOf(k) :
                     /\ scored_jobs[e].ai_score =
                           FirstDigitsCapped(strip(replies[k].content))
                     /\ scored_jobs[e].ai_confidence = LOW
          ELSE EntriesOf(k) = {}

\* C10 witness: the response "rate 72." gave the record score 72 with
\* confidence LOW, and with min_score 50 the record was kept
C10_Witness ==
    /\ ai_pc = "returned"
    /\ min_score = 50
    /\ \E k \in 1..Len(replies) :
          /\ replies[k] = Replied(ReplyProse)
          /\ \E e \in EntriesOf(k) :
                scored_jobs[e].ai_score = 72 /\ scored_jobs[e].ai_confidence = LOW

\* the score the parsing rules give a reply, and whether they give one
RuleScores(text) == Structured(text) \/ number_match(strip(text)).found
RuleScore(text) ==
    IF Structured(text) THEN ParsedScore(text) ELSE FirstDigitsCapped(strip(text))

\* C11: a record whose model call failed has no entry in scored_jobs; the
\* record after it is sent to the model; every record answered after a
\* failed call is kept exactly when the parsing rules give it a score
\* >= min_score; and the function returns with every record sent.
C11_ModelFailureSkipsRecord ==
    /\ \A k \in 1..Len(replies) :
          replies[k].raised =>
             /\ EntriesOf(k) = {}
             /\ k < Len(jobs_df) => (Len(replies) > k \/ (ai_pc = "scoring" /\ idx = k + 1))
             /\ k = Len(jobs_df) => ai_pc = "returned"
             /\ \A j \in (k + 1)..Len(replies) :
                   ~replies[j].raised =>
                      Cardinality(EntriesOf(j)) =
                         IF /\ RuleScores(replies[j].content)
                            /\ RuleScore(replies[j].content) >= min_score
                         THEN 1 ELSE 0
    /\ ai_pc = "returned" => Len(replies) = Len(jobs_df)

\* C11 witness: the call for the first record failed, the second record was
\* scored and kept, and the function returned
C11_Witness ==
    /\ ai_pc = "returned"
    /\ Len(jobs_df) = 2
    /\ replies[1].raised
    /\ ~replies[2].raised
    /\ Len(ai_result) = 1
    /\ ai_result[1].job = jobs_df[2]

\* C12 as claimed: every score attached by AI scoring is an integer in
\* 0..100 and its confidence is one of HIGH, MEDIUM, LOW.
C12_ScoreInRange ==
    \A e \in 1..Len(scored_jobs) :
       /\ scored_jobs[e].ai_score \in 0..100
       /\ scored_jobs[e].ai_confidence \in {HIGH, MEDIUM, LOW}

\* C13: the table ai_filter_jobs returns after scoring holds the kept
\* records, each once, and every record's ai_score is >= the ai_score of
\* the record after it.
C13_ResultSortedByScore ==
    ai_pc = "returned" =>
       /\ \A x \in 1..(Len(ai_result) - 1) :
             ai_result[x].ai_score >= ai_result[x + 1].ai_score
       /\ Len(ai_result) = Len(scored_jobs)
       /\ \A e \in 1..Len(scored_jobs) :
             \E x \in 1..Len(ai_result) : ai_result[x] = scored_jobs[e]

\* C13 witness: two records were kept, the first of the input with the
\* lower score, and the result has the second of the input first
C13_Witness ==
    /\ ai_pc = "returned"
    /\ Len(scored_jobs) = 2
    /\ scored_jobs[1].ai_score < scored_jobs[2].ai_score
    /\ ai_result[1] = scored_jobs[2]
    /\ ai_result[2] = scored_jobs[1]

(***************************************************************************)
(* What the claims about smart_job_search speak of.                        *)
(***************************************************************************)
\* the whitespace-delimited tokens of the normalized query
QueryTokens == split(Normalized(search_query))
\* the k-th row of the table is in the result
InResult(k) == \E x \in 1..Len(filtered_jobs) : filtered_jobs[x] = jobs_df[k]
\* the title holds at least one token of the query, or all of them
SomeToken(title) ==
    \E x \in 1..Len(QueryTokens) : Contains(QueryTokens[x], lower(title))
AllTokens(title) ==
    \A x \in 1..Len(QueryTokens) : Contains(QueryTokens[x], lower(title))
\* the score of the tiers: 100 for the exact substring, 95 for all tokens,
\* 85 for at least one token, and less below
TierScore(title) ==
    IF Contains(Normalized(search_query), lower(title)) THEN 100
    ELSE IF AllTokens(title) THEN 95
    ELSE IF SomeToken(title) THEN 85
    ELSE 0

\* C14 as claimed: every row whose lower-cased title contains at least one
\* token of the normalized query is kept by the search.
C14_Original ==
    search_pc = "returned" =>
       \A k \in 1..Len(jobs_df) : SomeToken(jobs_df[k].title) => InResult(k)

\* the terms the synonym table relates to the normalized query
RelatedTerms ==
    UNION { {synonyms[e][2][x] : x \in 1..Len(synonyms[e][2])} :
            e \in {y \in 1..Len(synonyms) : synonyms[y][1] = Normalized(search_query)} }

\* C15 as claimed: when no token of the query is in the title, the query is
\* a key of the synonym table and the title contains one of the key's
\* related terms, the row is returned by the search.
C15_Original ==
    search_pc = "returned" =>
       \A k \in 1..Len(jobs_df) :
          (/\ ~SomeToken(jobs_df[k].title)
           /\ \E term \in RelatedTerms : Contains(term, lower(jobs_df[k].title))) =>
             InResult(k)

\* C16 as claimed: the rows of the result come in descending order of tier
\* score, and rows of equal score in their order in the table.
C16_Original ==
    search_pc = "returned" =>
       \A x, y \in 1..Len(filtered_jobs) :
          x < y =>
             /\ TierScore(filtered_jobs[x].title) >= TierScore(filtered_jobs[y].title)
             /\ TierScore(filtered_jobs[x].title) = TierScore(filtered_jobs[y].title)
                   => filtered_jobs[x].index < filtered_jobs[y].index

\* the titles of the rows of a table
TitlesOf(rows) == {rows[k].title : k \in 1..Len(rows)}

\* C17: for the query "software engineer" over the three titles "Senior
\* Software Engineer", "Software Engineering Manager" and "Baker" in any
\* order, the first is returned and the third is not (so the first ranks
\* above it), and the second is returned exactly when it contains the query
\* or all of its tokens, which it does.
C17_ThreeTitles ==
    (/\ search_pc = "returned"
     /\ Normalized(search_query) = QuerySoftwareEngineer
     /\ Len(jobs_df) = 3
     /\ TitlesOf(jobs_df) = {TitleSenior, TitleManager, TitleBaker}) =>
       /\ TitleSenior \in TitlesOf(filtered_jobs)
       /\ TitleBaker \notin TitlesOf(filtered_jobs)
       /\ TitleManager \in TitlesOf(filtered_jobs)
             <=> (\/ Contains(QuerySoftwareEngineer, lower(TitleManager))
                  \/ AllTokens(TitleManager))
       /\ TitleManager \in TitlesOf(filtered_jobs)
       /\ Len(filtered_jobs) = 2

\* C17 witness: the search has run on the three titles with "Baker" first
\* and "Senior Software Engineer" last
C17_Witness ==
    /\ search_pc = "returned"
    /\ search_query = QuerySoftwareEngineer
    /\ Len(jobs_df) = 3
    /\ jobs_df[1].title = TitleBaker
    /\ jobs_df[2].title = TitleManager
    /\ jobs_df[3].title = TitleSenior
    /\ Len(filtered_jobs) = 2
    /\ filtered_jobs[2].title = TitleSenior

(***************************************************************************)
(* The Start Search button.                                                *)
(***************************************************************************)
\* the request names no employer after parsing, or no location
Malformed ==
    \/ ParseCompanies(companies_input) = <<>>
    \/ strip(location) = <<>>

\* C19: once the button was handled, a request whose parsed employer set is
\* empty (an input of commas and blanks included) or whose location is empty
\* has been rejected with a validation message, and the collector was never
\* entered for it: no upstream query, no collection state
C19_Original ==
    (main_pc # "clicked" /\ Malformed)
        => /\ main_pc = "returned"
           /\ message \in {NeedCompany, NeedLocation}
           /\ pc = "off"
           /\ queries = <<>>

\* C18: when main has reported on an empty merged set of a search that
\* queried employers, the outcome reports the last employer as failed exactly
\* when its query failed; an employer that was queried successfully and had
\* no posting is not reported as an employer whose query raised
C18_Original ==
    (main_pc = "returned" /\ pc = "done" /\ companies # <<>>
        /\ len(combined_jobs) = 0)
        => (LastLine.kind = "error" <=> queries[1].raised)

(***************************************************************************)
(* The original fields of a record.                                        *)
(***************************************************************************)
\* the fields of a row that the upstream source filled
OriginalFields(r) ==
    [job_url |-> r.job_url, title |-> r.title, date_posted |-> r.date_posted]

\* the original fields of the postings the upstream source returns
Fetched == {OriginalFields(l) : l \in Listings}

\* the rows of the tables collected so far, before the merge
CollectedRows ==
    UNION {{all_jobs[f].rows[k] : k \in 1..Len(all_jobs[f].rows)} :
             f \in 1..Len(all_jobs)}

\* the rows of the returned table
ReturnedRows == {combined_jobs.rows[k] : k \in 1..Len(combined_jobs.rows)}

\* C20 as stated: every row of the returned table carries the job_url, the
\* title and the date_posted of a posting exactly as the upstream returned
\* them
C20_Original ==
    \A r \in ReturnedRows : OriginalFields(r) \in Fetched

\* C20: a collected row carries the original fields of a fetched posting
\* unchanged; a row of the returned table carries its job_url and title
\* unchanged and its date_posted as the timestamp of the same day, a missing
\* date as NaT
C20_OnlyDatePostedConverted ==
    /\ \A r \in CollectedRows : OriginalFields(r) \in Fetched
    /\ \A r \in ReturnedRows :
         \E o \in Fetched :
            /\ r.job_url = o.job_url
            /\ r.title = o.title
            /\ \/ /\ o.date_posted.kind = "date"
                  /\ r.date_posted = Timestamp(o.date_posted.day)
               \/ /\ o.date_posted = NoDate
                  /\ r.date_posted = NaT

C20_Witness ==
    /\ pc = "done"
    /\ \E r \in ReturnedRows : r.date_posted.kind = "Timestamp"
    /\ \E r \in ReturnedRows : r.date_posted = NaT
    /\ \E r \in ReturnedRows : r.search_company # NaN /\ r.time_range # NaN

\* a scored record carries the record it was scored from, as it was
ScoredKeepsJob ==
    \A e \in 1..Len(scored_jobs) :
        \E k \in 1..Len(jobs_df) : scored_jobs[e].job = jobs_df[k]

(***************************************************************************)
(* The window schedule.                                                    *)
(***************************************************************************)
\* C21: the schedule that the window loop of a saturated employer iterates
\* has 15 windows; the end bounds of the first 14 are 24, 48, ..., 336,
\* strictly increasing; the last window has no end bound; the first window
\* has no start bound and every other window starts where the one before it
\* ended
C21_WindowSchedule ==
    pc = "window" =>
        /\ w \in 1..total_ranges
        /\ total_ranges = 15
        /\ \A k \in 1..(total_ranges - 1) : time_ranges[k].end_hours = 24 * k
        /\ \A k \in 1..(total_ranges - 2) :
              time_ranges[k].end_hours < time_ranges[k + 1].end_hours
        /\ time_ranges[total_ranges].end_hours = None
        /\ time_ranges[1].start_hours = None
        /\ \A k \in 2..total_ranges :
              time_ranges[k].start_hours = time_ranges[k - 1].end_hours

\* the window loop of a saturated employer is at the open-ended last window
C21_Witness ==
    /\ pc = "window"
    /\ w = total_ranges
    /\ time_ranges[w].end_hours = None
    /\ Len(queries) = total_ranges

(***************************************************************************)
(* The window label of a retained record.                                  *)
(***************************************************************************)
\* the windows of the last finished employer whose query returned a row
\* with the key
WindowsWith(key) ==
    {k \in 1..total_ranges :
        ~queries[k + 1].raised /\ key \in Keys(queries[k + 1].frame)}

\* C22: every row of a saturated employer's deduplicated batch carries the
\* label of the first window of the schedule whose query returned, without
\* raising, a row with that (job_url, title) key
C22_LabelOfEarliestWindow ==
    (LastDone /\ LastLine.kind = "time-based search") =>
        \A x \in 1..Len(LastBatch.rows) :
            LET key == KeyOf(LastBatch.rows[x])
            IN  /\ WindowsWith(key) # {}
                /\ LastBatch.rows[x].time_range =
                      time_ranges[Least(WindowsWith(key))].range_name

\* one key came back from two windows after an earlier window raised
C22_Witness ==
    /\ LastDone
    /\ LastLine.kind = "time-based search"
    /\ \E k \in 2..Len(queries) : queries[k].raised
    /\ \E x \in 1..Len(LastBatch.rows) :
          /\ Cardinality(WindowsWith(KeyOf(LastBatch.rows[x]))) = 2
          /\ Least(WindowsWith(KeyOf(LastBatch.rows[x]))) > 1

(***************************************************************************)
(* The order of the upstream queries.                                      *)
(***************************************************************************)
\* C23: every step issues exactly one upstream call, for the current
\* employer, and records its return or its failure in the same step: the
\* first query first, then the windows in schedule order; while employer i
\* is being queried every employer before it has been reported; and the
\* collector moves to employer i + 1, or ends, only when employer i has been
\* reported and, if it went through the window loop, all its 16 calls have
\* returned or raised
C23_OneQueryAtATime ==
    /\ []((pc \in {"first", "window"}) =>
            /\ Len(report) = i - 1
            /\ pc = "window" =>
                  /\ Len(queries) = w
                  /\ \A k \in 1..Len(queries) :
                        queries[k].args.indeed_company_id = companies[i])
    /\ [][/\ i' \in {i, i + 1}
          /\ pc = "first" =>
                /\ Len(queries') = 1
                /\ queries'[1].args = Query(companies[i], hours_old)
          /\ pc = "window" =>
                /\ Len(queries') = Len(queries) + 1
                /\ SubSeq(queries', 1, Len(queries)) = queries
                /\ queries'[Len(queries')].args =
                      Query(companies[i], time_ranges[Len(queries)].end_hours)
          /\ (i' = i + 1 \/ pc' = "done") =>
                /\ Len(report') = i
                /\ report'[i].company = companies[i]
                /\ report'[i].kind \in {"time-based search", "fallback"} =>
                      Len(queries') = 1 + total_ranges]_vars

\* the first employer went through all its windows, one of which raised,
\* and the second employer is about to be queried
C23_Witness ==
    /\ pc = "first"
    /\ i = 2
    /\ report[1].kind \in {"time-based search", "fallback"}
    /\ Len(queries) = 1 + total_ranges
    /\ \E k \in 2..Len(queries) : queries[k].raised

(***************************************************************************)
(* The stored AI result.                                                   *)
(***************************************************************************)
\* the AI filter is applied to a target, in a session state
AIActive(s) == s.ai_filter_applied /\ s.ai_target # <<>>
\* the session holds a result stored for its target
Stored(s) ==
    /\ s.ai_filtered_jobs # <<>>
    /\ s.ai_cache_key = <<CacheKey(s.ai_target)>>

\* while the filter stays applied to the same target, a step neither calls
\* the engine nor replaces the stored result
ReusedWhileApplied ==
    [][(/\ TableOn
        /\ AIActive(session_state) /\ Stored(session_state)
        /\ AIActive(session_state')
        /\ session_state'.ai_target = session_state.ai_target)
          => /\ ~rendered'.invoked
             /\ session_state'.ai_filtered_jobs = session_state.ai_filtered_jobs]_vars

\* a step that clears the filter or applies another target leaves no result
\* of before the step in the session
DiscardedOnChange ==
    [][(/\ TableOn
        /\ session_state.ai_filtered_jobs # <<>>
        /\ \/ ~AIActive(session_state')
           \/ session_state'.ai_target # session_state.ai_target)
          => \/ session_state'.ai_filtered_jobs = <<>>
             \/ rendered'.invoked]_vars

\* C24: across reruns, while the AI filter stays applied to an unchanged
\* target the engine is not called again and the stored result is kept;
\* clearing the filter or applying another target discards the stored
\* result, so that the next run with an active filter calls the engine
C24_Original == ReusedWhileApplied /\ DiscardedOnChange

\* the last run showed the stored result instead of calling the engine
ShowsStored ==
    /\ TableOn
    /\ rendered.outcome \in {"table", "no filter match"}
    /\ AIActive(session_state)
    /\ ~rendered.invoked

\* the arguments of the call that produced the stored result
StoredCall == session_state.ai_filtered_jobs[1].scored[1]

\* C25: whenever a run shows the stored AI result instead of calling the
\* engine, that result was computed from the loaded search result
\* restricted by the current title search, for the current target and with
\* the current position of the Minimum Score slider
C25_Original ==
    ShowsStored =>
        /\ StoredCall.jobs_df =
              smart_job_search(JobsData(session_state.jobs_data),
                               session_state.job_title_search)
        /\ StoredCall.user_target = session_state.ai_target
        /\ StoredCall.min_score = session_state.min_score

(***************************************************************************)
(* The recency bound of the request.                                       *)
(***************************************************************************)
\* C26: when the request has a recency bound, every upstream call made for
\* the current employer, the window queries included, has a recency bound
\* that is a number of hours not above the request's
C26_Original ==
    hours_old # None =>
        \A k \in 1..Len(queries) :
            /\ queries[k].args.hours_old # None
            /\ queries[k].args.hours_old <= hours_old

(***************************************************************************)
(* The first query's rows of a saturated employer.                         *)
(***************************************************************************)
\* C27: when windows returned rows for a saturated employer, the employer's
\* batch holds every key of the first query's table: its tracked keys and
\* as many further rows as the first table had
C27_Original ==
    (LastDone /\ LastLine.kind = "time-based search") =>
        /\ Keys(queries[1].frame) \subseteq Keys(LastBatch)
        /\ queries[1].frame.bulk <= LastBatch.bulk

(***************************************************************************)
(* Termination.                                                            *)
(***************************************************************************)
\* the calls that the collector has left behind: 16 for every employer
\* before the current one, and the windows before the current one
CallsBehind ==
    IF pc = "done" THEN (Len(companies) + 1) * (1 + total_ranges)
    ELSE i * (1 + total_ranges) + (IF pc = "window" THEN w ELSE 0)

\* C28: when every upstream call returns or raises, the collector reaches
\* its return with a table; it makes at most 16 calls per employer, the
\* first query and one per window, and every call takes it further through
\* the employers and the windows, so that no call is made twice
C28_Terminates ==
    /\ <>(pc = "done")
    /\ [](Len(queries) <= 1 + total_ranges /\ 1 + total_ranges = 16)
    /\ [](pc = "window" => Len(queries) = w)
    /\ [][CallsBehind' > CallsBehind /\ Len(queries') <= Len(queries) + 1]_vars
    /\ [](pc = "done" =>
            /\ Len(report) = Len(companies)
            /\ combined_jobs.rows \in Seq([job_url : {"u1", "u2"},
                                          title : {"t1", "t2"},
                                          date_posted : {Timestamp(1), Timestamp(2), NaT},
                                          search_company : Companies,
                                          time_range : {NaN} \cup
                                             {time_ranges[k].range_name :
                                                 k \in 1..total_ranges}]))

\* two employers, the first one saturated with a failed window, are done
C28_Witness ==
    /\ pc = "done"
    /\ Len(companies) = 2
    /\ report[1].kind \in {"time-based search", "fallback"}
    /\ failures > 0

(***************************************************************************)
(* The page of the job table.                                              *)
(***************************************************************************)
\* C29: whenever a run slices the page of the table, total_pages is the
\* number of rows of the filtered frame divided by jobs_per_page and rounded
\* up, the current page lies between 1 and total_pages, and the slice is not
\* empty and ends within the frame; a run with a filtered frame of no row
\* has one page; and a step that loads another search result, or whose
\* search fails, leaves the page at 1
C29_PageInRange ==
    /\ [](rendered.outcome = "table" =>
            LET total_filtered_jobs == Cardinality(rendered.filtered.rows)
            IN  /\ total_filtered_jobs > 0
                /\ rendered.total_pages >= 1
                /\ rendered.total_pages * jobs_per_page >= total_filtered_jobs
                /\ (rendered.total_pages - 1) * jobs_per_page < total_filtered_jobs
                /\ rendered.current_page = session_state.current_page
                /\ 1 <= rendered.current_page
                /\ rendered.current_page <= rendered.total_pages
                /\ rendered.start_idx = (rendered.current_page - 1) * jobs_per_page
                /\ rendered.start_idx < rendered.end_idx
                /\ rendered.end_idx <= total_filtered_jobs)
    /\ [](rendered.outcome = "no filter match" =>
            rendered.total_pages = 1 /\ session_state.current_page = 1)
    /\ [][(\/ session_state'.jobs_data # session_state.jobs_data
           \/ rendered'.outcome = "search error")
             => session_state'.current_page = 1]_vars

\* the table is on a later page of a search result that was filtered by
\* company and sorted by title, with a stored AI result shown
C29_Witness ==
    /\ rendered.outcome = "table"
    /\ rendered.current_page >= 2
    /\ session_state.company_filter # "All"
    /\ session_state.sort_column = "title"
    /\ ShowsStored

(***************************************************************************)
(* The duplicate analysis.                                                 *)
(***************************************************************************)
\* C30: the dictionary that analyze_duplicates returns has a
\* total_duplicates not above the number of rows of the table and a
\* duplicate_rate between 0 and 100, 0 for a table without rows, and the
\* call leaves the table as it was
C30_Original ==
    /\ [](pc = "analyzed" =>
            LET d == duplicate_analysis[1]
            IN  /\ d.total_duplicates <= Len(records)
                /\ 0 <= d.duplicate_rate.num
                /\ d.duplicate_rate.num <= 100 * d.duplicate_rate.den
                /\ records = <<>> => d.duplicate_rate.num = 0)
    /\ [][records' = records]_vars

====
